---------------------------- MODULE Spec2Model ----------------------------
(***************************************************************************)
(* Rule DSL, predicate library, rule evaluator, ranker and sanitizer of    *)
(* scripts/analyze_workbook.py.                                            *)
(*                                                                         *)
(* Representation.  A Python str is a tuple of one-character strings, so   *)
(* that the regular expressions, strip(), lower(), upper(), split() and    *)
(* join() of the source are computed character by character.  A cell or    *)
(* argument value is a tagged record (None, str, int, float, datetime).    *)
(* A float is held in hundredths (0.70 is 70); the texts of the model      *)
(* carry at most two decimals.  A datetime is a number of clock ticks.     *)
(***************************************************************************)
EXTENDS Integers, Sequences, FiniteSets, TLC

(***************************************************************************)
(* Bounds of the model.                                                    *)
(***************************************************************************)
\* longest rule table handed to evaluate_rules
MaxRules == 2
\* how many times the wall clock may advance during one evaluation pass
MaxTicks == 1
\* clock ticks in one hour (the source's clock has microsecond resolution)
TicksPerHour == 2

(***************************************************************************)
(* Characters and texts.                                                   *)
(***************************************************************************)
AlphaU ==
    <<"A","B","C","D","E","F","G","H","I","J","K","L","M",
      "N","O","P","Q","R","S","T","U","V","W","X","Y","Z">>
AlphaL ==
    <<"a","b","c","d","e","f","g","h","i","j","k","l","m",
      "n","o","p","q","r","s","t","u","v","w","x","y","z">>
DigitChars == <<"0","1","2","3","4","5","6","7","8","9">>

UpperSet == {AlphaU[i] : i \in DOMAIN AlphaU}
LowerSet == {AlphaL[i] : i \in DOMAIN AlphaL}
DigitSet == {DigitChars[i] : i \in DOMAIN DigitChars}

\* \s of the re module, str.strip(): the texts of the model hold blanks only
IsSpace(c) == c = " "
\* [A-Z_]
IsNameChar(c) == c \in UpperSet \/ c = "_"
\* [a-zA-Z_]
IsKeyChar(c) == c \in UpperSet \/ c \in LowerSet \/ c = "_"

IndexIn(seq, c) == CHOOSE i \in DOMAIN seq : seq[i] = c
\* str.lower() and str.upper(), one character
LowerChar(c) == IF c \in UpperSet THEN AlphaL[IndexIn(AlphaU, c)] ELSE c
UpperChar(c) == IF c \in LowerSet THEN AlphaU[IndexIn(AlphaL, c)] ELSE c
Lower(s) == [i \in DOMAIN s |-> LowerChar(s[i])]
Upper(s) == [i \in DOMAIN s |-> UpperChar(s[i])]

\* s[i:] of Python with a 1-based start
From(s, i) == SubSeq(s, i, Len(s))

\* first index >= i of s that holds no blank, Len(s)+1 when there is none
RECURSIVE SkipSpaces(_, _)
SkipSpaces(s, i) ==
    IF i > Len(s) THEN Len(s) + 1
    ELSE IF IsSpace(s[i]) THEN SkipSpaces(s, i + 1) ELSE i

\* last index <= i of s that holds no blank, 0 when there is none
RECURSIVE SkipSpacesBack(_, _)
SkipSpacesBack(s, i) ==
    IF i < 1 THEN 0
    ELSE IF IsSpace(s[i]) THEN SkipSpacesBack(s, i - 1) ELSE i

\* str.strip()
Strip(s) == SubSeq(s, SkipSpaces(s, 1), SkipSpacesBack(s, Len(s)))

RECURSIVE SkipQuotes(_, _)
SkipQuotes(s, i) ==
    IF i > Len(s) THEN Len(s) + 1
    ELSE IF s[i] = "\"" THEN SkipQuotes(s, i + 1) ELSE i
RECURSIVE SkipQuotesBack(_, _)
SkipQuotesBack(s, i) ==
    IF i < 1 THEN 0
    ELSE IF s[i] = "\"" THEN SkipQuotesBack(s, i - 1) ELSE i

\* str.strip('"')
StripQuotes(s) == SubSeq(s, SkipQuotes(s, 1), SkipQuotesBack(s, Len(s)))

\* least and greatest element of a non-empty set of integers, 0 of the empty set
MinOr0(S) == IF S = {} THEN 0 ELSE CHOOSE x \in S : \A y \in S : x <= y
MaxOr0(S) == IF S = {} THEN 0 ELSE CHOOSE x \in S : \A y \in S : y <= x

\* first index >= i of s holding c, 0 when there is none
Find(s, c, i) == MinOr0({j \in i..Len(s) : s[j] = c})

\* last index <= i of s holding c, 0 when there is none
FindLast(s, c, i) == MaxOr0({j \in 1..i : s[j] = c})

\* first index >= i of s where sub starts, 0 when there is none
FindSub(s, sub, i) ==
    MinOr0({j \in i..(Len(s) - Len(sub) + 1) : SubSeq(s, j, j + Len(sub) - 1) = sub})

\* sub in text, as Python's substring test
Contains(text, sub) ==
    \E i \in 1..(Len(text) - Len(sub) + 1) :
        SubSeq(text, i, i + Len(sub) - 1) = sub

\* str.split(sep) for a one-character separator
RECURSIVE SplitChar(_, _)
SplitChar(s, sep) ==
    LET p == Find(s, sep, 1) IN
    IF p = 0 THEN <<s>>
    ELSE <<SubSeq(s, 1, p - 1)>> \o SplitChar(From(s, p + 1), sep)

\* sep.join(parts)
RECURSIVE Join(_, _)
Join(parts, sep) ==
    IF parts = <<>> THEN <<>>
    ELSE IF Len(parts) = 1 THEN parts[1]
    ELSE parts[1] \o sep \o Join(Tail(parts), sep)

\* str.replace(old, new): leftmost occurrences, not overlapping
RECURSIVE Replace(_, _, _)
Replace(s, old, new) ==
    LET p == FindSub(s, old, 1) IN
    IF old = <<>> \/ p = 0 THEN s
    ELSE SubSeq(s, 1, p - 1) \o new \o Replace(From(s, p + Len(old)), old, new)

IsDigits(s) == s # <<>> /\ \A i \in DOMAIN s : s[i] \in DigitSet
DigitVal(c) == IndexIn(DigitChars, c) - 1
RECURSIVE DigitsVal(_)
DigitsVal(s) ==
    IF s = <<>> THEN 0
    ELSE 10 * DigitsVal(SubSeq(s, 1, Len(s) - 1)) + DigitVal(s[Len(s)])

\* the decimal digits of n >= 0
RECURSIVE NatText(_)
NatText(n) ==
    IF n < 10 THEN <<DigitChars[n + 1]>>
    ELSE NatText(n \div 10) \o <<DigitChars[(n % 10) + 1]>>

(***************************************************************************)
(* Values: None, str, int, float (hundredths), datetime (ticks), bool.     *)
(***************************************************************************)
None == [t |-> "none", s |-> <<>>, n |-> 0]
StrV(s) == [t |-> "str", s |-> s, n |-> 0]
IntV(n) == [t |-> "int", s |-> <<>>, n |-> n]
FloatV(n) == [t |-> "float", s |-> <<>>, n |-> n]
DtV(n) == [t |-> "dt", s |-> <<>>, n |-> n]
\* True is BoolV(1), False is BoolV(0)
BoolV(n) == [t |-> "bool", s |-> <<>>, n |-> n]

\* v in (None, "")
IsBlank(v) == v.t = "none" \/ (v.t = "str" /\ v.s = <<>>)
\* bool(v): None, "", 0 and 0.0 are false, a datetime is always true
Truthy(v) ==
    CASE v.t = "none" -> FALSE
      [] v.t = "str" -> v.s # <<>>
      [] v.t \in {"int", "float", "bool"} -> v.n # 0
      [] v.t = "dt" -> TRUE

\* repr of a float held in hundredths: 70 is 0.7, 100 is 1.0, 25 is 0.25
FloatText(n) ==
    LET a == IF n < 0 THEN 0 - n ELSE n
        frac == a % 100
        ftxt == IF frac % 10 = 0 THEN NatText(frac \div 10)
                ELSE NatText(frac \div 10) \o NatText(frac % 10)
    IN (IF n < 0 THEN <<"-">> ELSE <<>>) \o NatText(a \div 100) \o <<".">> \o ftxt

\* str(v) for None, str, int, float and bool
PyStr(v) ==
    CASE v.t = "none" -> <<"N","o","n","e">>
      [] v.t = "str" -> v.s
      [] v.t = "int" -> IF v.n < 0 THEN <<"-">> \o NatText(0 - v.n) ELSE NatText(v.n)
      [] v.t = "float" -> FloatText(v.n)
      [] v.t = "bool" -> IF v.n = 1 THEN <<"T","r","u","e">> ELSE <<"F","a","l","s","e">>

\* dict.get(key, default) on a mapping from texts to values
Get(d, key, default) == IF key \in DOMAIN d THEN d[key] ELSE default

\* a mapping built from a sequence of <<key, value>> pairs, later pairs winning
MkDict(pairs) ==
    [k \in {pairs[i][1] : i \in DOMAIN pairs} |->
        pairs[CHOOSE i \in DOMAIN pairs :
                /\ pairs[i][1] = k
                /\ \A j \in DOMAIN pairs : pairs[j][1] = k => j <= i][2]]

(***************************************************************************)
(* DSL parser: parse_call and parse_iflogic.                               *)
(***************************************************************************)
NoArgs == MkDict(<<>>)
\* the outcome of a call that raised
Raised == [ok |-> FALSE, fn |-> <<>>, args |-> NoArgs]

\* number of leading characters of s, from index i on, that are in [A-Z_]
RECURSIVE NameRun(_, _)
NameRun(s, i) ==
    IF i > Len(s) THEN 0
    ELSE IF IsNameChar(s[i]) THEN 1 + NameRun(s, i + 1) ELSE 0

\* number of leading characters of s, from index i on, that are in [a-zA-Z_]
RECURSIVE KeyRun(_, _)
KeyRun(s, i) ==
    IF i > Len(s) THEN 0
    ELSE IF IsKeyChar(s[i]) THEN 1 + KeyRun(s, i + 1) ELSE 0

\* ,\s*(?=[a-zA-Z_]+=) matched at index p of raw: the index after the match,
\* 0 when it does not match there
KeyAhead(raw, q, w) == IF w > q /\ w <= Len(raw) /\ raw[w] = "=" THEN q ELSE 0
KeyFrom(raw, q) == KeyAhead(raw, q, q + KeyRun(raw, q))
ArgSepEnd(raw, p) == IF raw[p] # "," THEN 0 ELSE KeyFrom(raw, SkipSpaces(raw, p + 1))

\* a variant that cuts at every comma
SplitAtEveryComma(raw, start) == SplitChar(From(raw, start), ",")

\* re.split(r",\s*(?=[a-zA-Z_]+=)", raw): the pieces of raw from index
\* `start` on, cut at the leftmost matches
RECURSIVE SplitArgs(_, _)
SplitArgsAt(raw, start, p) ==
    IF p = 0 THEN <<SubSeq(raw, start, Len(raw))>>
    ELSE <<SubSeq(raw, start, p - 1)>> \o SplitArgs(raw, ArgSepEnd(raw, p))
SplitArgs(raw, start) ==
    SplitArgsAt(raw, start, MinOr0({j \in start..Len(raw) : ArgSepEnd(raw, j) # 0}))

\* the typed literal of an argument text: ^-?\d+\.\d+$ is a float,
\* ^-?\d+$ an int, anything else stays a str
\* the fraction digits fp in hundredths; digits after the second are dropped
Hundredths(fp) ==
    IF fp = <<>> THEN 0
    ELSE IF Len(fp) = 1 THEN 10 * DigitsVal(fp)
    ELSE DigitsVal(SubSeq(fp, 1, 2))

\* the literal sign * ip.fp when both are digit runs
FloatLiteral(v, sign, ip, fp) ==
    IF IsDigits(ip) /\ IsDigits(fp)
    THEN FloatV(sign * (100 * DigitsVal(ip) + Hundredths(fp)))
    ELSE StrV(v)

\* the literal of the argument text v, body being v without its "-" sign
\* and dot the index of the first "." of body
LiteralAt(v, sign, body, dot) ==
    IF dot > 0 THEN FloatLiteral(v, sign, SubSeq(body, 1, dot - 1), From(body, dot + 1))
    ELSE IF IsDigits(body) THEN IntV(sign * DigitsVal(body))
    ELSE StrV(v)

CastLiteral(v) ==
    IF v # <<>> /\ v[1] = "-" THEN LiteralAt(v, 0 - 1, Tail(v), Find(Tail(v), ".", 1))
    ELSE LiteralAt(v, 1, v, Find(v, ".", 1))

\* one argument of parse_call: part cut at its first "=" (index e)
ArgPair(part, e) ==
    <<Strip(SubSeq(part, 1, e - 1)), CastLiteral(StripQuotes(Strip(From(part, e + 1))))>>

\* the loop of parse_call over the parts: the args built so far, or the
\* failure of k, v = part.split("=", 1) on a part that holds no "="
RECURSIVE ParseArgs(_, _)
ParseArgs(parts, acc) ==
    IF parts = <<>> THEN [ok |-> TRUE, pairs |-> acc]
    ELSE IF Strip(Head(parts)) = <<>> THEN ParseArgs(Tail(parts), acc)
    ELSE IF Find(Head(parts), "=", 1) = 0 THEN [ok |-> FALSE, pairs |-> acc]
    ELSE ParseArgs(Tail(parts),
                   Append(acc, ArgPair(Head(parts), Find(Head(parts), "=", 1))))

\* the call named fn with the outcome of the argument loop
CallOf(fn, got) ==
    IF got.ok THEN [ok |-> TRUE, fn |-> fn, args |-> MkDict(got.pairs)] ELSE Raised

\* re.match(r"([A-Z_]+)\((.*)\)", s) on the stripped text s: n is the length
\* of the longest run of [A-Z_] at its start and r the index of its last ")"
MatchCall(s, n, r) ==
    IF n = 0 \/ n + 1 > Len(s) \/ s[n + 1] # "(" \/ r < n + 2 THEN Raised
    ELSE CallOf(SubSeq(s, 1, n), ParseArgs(SplitArgs(SubSeq(s, n + 2, r - 1), 1), <<>>))

\* parse_call on a stripped text
ParseStripped(s) == MatchCall(s, NameRun(s, 1), FindLast(s, ")", Len(s)))

\* parse_call
parse_call(expr) == ParseStripped(Strip(expr))

\* \s+AND\s+ matched at index p of s: the index after the match, 0 when it
\* does not match there
AndAt(s, q) ==
    IF /\ q + 3 <= Len(s)
       /\ SubSeq(s, q, q + 2) = <<"A","N","D">>
       /\ IsSpace(s[q + 3])
    THEN SkipSpaces(s, q + 3) ELSE 0
AndSepEnd(s, p) == IF ~IsSpace(s[p]) THEN 0 ELSE AndAt(s, SkipSpaces(s, p))

\* re.split(r"\s+AND\s+", s): the pieces of s from index `start` on, cut at
\* the leftmost matches
RECURSIVE SplitAnd(_, _)
SplitAndAt(s, start, p) ==
    IF p = 0 THEN <<SubSeq(s, start, Len(s))>>
    ELSE <<SubSeq(s, start, p - 1)>> \o SplitAnd(s, AndSepEnd(s, p))
SplitAnd(s, start) ==
    SplitAndAt(s, start, MinOr0({j \in start..Len(s) : AndSepEnd(s, j) # 0}))

\* the calls parsed so far with one more call, or its failure
WithCall(acc, call) ==
    IF call.ok /\ acc.ok THEN [ok |-> TRUE, calls |-> Append(acc.calls, call)]
    ELSE [ok |-> FALSE, calls |-> <<>>]

\* [parse_call(c) for c in chunks if c], the chunks being stripped: the
\* calls, or the failure of the first call that raises
RECURSIVE ParseChunks(_, _)
ParseChunks(chunks, acc) ==
    IF chunks = <<>> \/ ~acc.ok THEN acc
    ELSE IF Strip(Head(chunks)) = <<>> THEN ParseChunks(Tail(chunks), acc)
    ELSE ParseChunks(Tail(chunks), WithCall(acc, parse_call(Head(chunks))))

parse_iflogic(iflogic) == ParseChunks(SplitAnd(iflogic, 1), [ok |-> TRUE, calls |-> <<>>])

(***************************************************************************)
(* Coercions: float(), int(), to_float, parse_dt.                          *)
(***************************************************************************)
\* the outcome of a conversion that raised ValueError
Invalid == [ok |-> FALSE, n |-> 0]
Valid(n) == [ok |-> TRUE, n |-> n]

\* the number sign * ip.fp in hundredths when ip and fp are digit runs, not
\* both empty
DecimalOf(sign, ip, fp) ==
    IF /\ ip \o fp # <<>>
       /\ (ip = <<>> \/ IsDigits(ip))
       /\ (fp = <<>> \/ IsDigits(fp))
    THEN Valid(sign * (100 * DigitsVal(ip) + Hundredths(fp)))
    ELSE Invalid

\* an unsigned decimal text cut at its first "." (dot is its index, 0 if none)
DecimalAt(sign, body, dot) ==
    IF dot = 0 THEN DecimalOf(sign, body, <<>>)
    ELSE DecimalOf(sign, SubSeq(body, 1, dot - 1), From(body, dot + 1))

\* float(s) of a stripped text
FloatOfStripped(s) ==
    IF s # <<>> /\ s[1] = "-" THEN DecimalAt(0 - 1, Tail(s), Find(Tail(s), ".", 1))
    ELSE IF s # <<>> /\ s[1] = "+" THEN DecimalAt(1, Tail(s), Find(Tail(s), ".", 1))
    ELSE DecimalAt(1, s, Find(s, ".", 1))

\* float(text) in hundredths for the decimal forms [+-]digits[.digits],
\* [+-]digits. and [+-].digits, blanks around them stripped; any other text
\* raises (exponents, inf, nan and digit separators are not among the
\* texts of the model)
FloatOfText(text) == FloatOfStripped(Strip(text))

\* int(s) of a stripped text
IntOfStripped(s) ==
    IF s # <<>> /\ s[1] = "-"
    THEN (IF IsDigits(Tail(s)) THEN Valid(0 - DigitsVal(Tail(s))) ELSE Invalid)
    ELSE IF s # <<>> /\ s[1] = "+"
    THEN (IF IsDigits(Tail(s)) THEN Valid(DigitsVal(Tail(s))) ELSE Invalid)
    ELSE IF IsDigits(s) THEN Valid(DigitsVal(s)) ELSE Invalid

\* int(text) for the forms [+-]digits, blanks around them stripped
IntOfText(text) == IntOfStripped(Strip(text))

\* float(v) of a call argument, in hundredths
PyFloat(v) ==
    CASE v.t = "int" -> Valid(100 * v.n)
      [] v.t = "float" -> Valid(v.n)
      [] v.t = "str" -> FloatOfText(v.s)

\* int(v) of a call argument: a float is truncated towards zero
PyInt(v) ==
    CASE v.t = "int" -> Valid(v.n)
      [] v.t = "float" -> Valid(IF v.n < 0 THEN 0 - ((0 - v.n) \div 100) ELSE v.n \div 100)
      [] v.t = "str" -> IntOfText(v.s)

\* the value of a conversion, 0.0 when it raised ValueError
OrZero(r) == IF r.ok THEN r.n ELSE 0

\* to_float of a text that is not empty, txt being its strip()
TextToFloat(txt) ==
    IF txt # <<>> /\ txt[1] = "=" THEN 0 ELSE OrZero(FloatOfStripped(txt))

\* to_float, in hundredths: the number itself, 0.0 for None, "", a formula
\* remnant ("=...") and any text float() rejects
to_float(v) ==
    CASE v.t \in {"int", "bool"} -> 100 * v.n
      [] v.t = "float" -> v.n
      [] v.t = "none" -> 0
      [] v.t = "dt" -> 0
      [] v.t = "str" -> IF v.s = <<>> THEN 0 ELSE TextToFloat(Strip(v.s))

\* days from 1970-01-01 to the civil date y-m-d
DaysFromCivil(y, m, d) ==
    LET yy == IF m <= 2 THEN y - 1 ELSE y
        era == yy \div 400
        yoe == yy - era * 400
        mp == IF m > 2 THEN m - 3 ELSE m + 9
        doy == (153 * mp + 2) \div 5 + d - 1
        doe == yoe * 365 + yoe \div 4 - yoe \div 100 + doy
    IN era * 146097 + doe - 719468

IsLeap(y) == y % 4 = 0 /\ (y % 100 # 0 \/ y % 400 = 0)
DaysInMonth(y, m) ==
    IF m = 2 THEN (IF IsLeap(y) THEN 29 ELSE 28)
    ELSE IF m \in {4, 6, 9, 11} THEN 30 ELSE 31

\* the instant the clock of the model counts from: 2026-01-01 00:00
EpochDays == DaysFromCivil(2026, 1, 1)

\* a strptime field: one or two digits
IsField(f) == IsDigits(f) /\ Len(f) <= 2

\* the day number of the civil date y-m-d relative to the epoch, when the
\* date exists
DateOfNumbers(y, m, d) ==
    IF y >= 1 /\ m >= 1 /\ m <= 12 /\ d >= 1 /\ d <= DaysInMonth(y, m)
    THEN Valid(DaysFromCivil(y, m, d) - EpochDays)
    ELSE Invalid

\* %Y-%m-%d on the fields f of a text split at "-"
DateOfFields(f) ==
    IF Len(f) = 3 /\ IsDigits(f[1]) /\ Len(f[1]) = 4 /\ IsField(f[2]) /\ IsField(f[3])
    THEN DateOfNumbers(DigitsVal(f[1]), DigitsVal(f[2]), DigitsVal(f[3]))
    ELSE Invalid

\* %Y-%m-%d: the day number, relative to the epoch
DateOfText(s) == DateOfFields(SplitChar(s, "-"))

\* a datetime of the given day, hour and minute in clock ticks; the times of
\* the model fall on whole ticks
TicksOf(day, hour, minute) ==
    (day * 24 + hour) * TicksPerHour + (minute * TicksPerHour) \div 60

\* the instant of day `day` (a conversion outcome) at hour:minute:second
InstantOf(day, hour, minute, second) ==
    IF day.ok /\ hour <= 23 /\ minute <= 59 /\ second <= 59
    THEN Valid(TicksOf(day.n, hour, minute))
    ELSE Invalid

\* %H:%M on the fields f of a text split at ":"
MinutesOfFields(day, f) ==
    IF Len(f) = 2 /\ IsField(f[1]) /\ IsField(f[2])
    THEN InstantOf(day, DigitsVal(f[1]), DigitsVal(f[2]), 0)
    ELSE Invalid

\* %H:%M:%S on the fields f of a text split at ":"
SecondsOfFields(day, f) ==
    IF Len(f) = 3 /\ IsField(f[1]) /\ IsField(f[2]) /\ IsField(f[3])
    THEN InstantOf(day, DigitsVal(f[1]), DigitsVal(f[2]), DigitsVal(f[3]))
    ELSE Invalid

\* strptime(s, "%Y-%m-%d %H:%M") with the first blank of s at index b: a
\* run of blanks stands for the blank of the format
MinutesAt(s, b) ==
    IF b = 0 THEN Invalid
    ELSE MinutesOfFields(DateOfText(SubSeq(s, 1, b - 1)),
                         SplitChar(From(s, SkipSpaces(s, b)), ":"))
StrptimeMinutes(s) == MinutesAt(s, Find(s, " ", 1))

\* strptime(s, "%Y-%m-%dT%H:%M:%S") with the first "T" of s at index b
SecondsAt(s, b) ==
    IF b = 0 THEN Invalid
    ELSE SecondsOfFields(DateOfText(SubSeq(s, 1, b - 1)), SplitChar(From(s, b + 1), ":"))
StrptimeSeconds(s) == SecondsAt(s, Find(s, "T", 1))

\* strptime(s, "%Y-%m-%d"): midnight of that day
StrptimeDate(s) == InstantOf(DateOfText(s), 0, 0, 0)

\* the first of the three formats that accepted the text, else None
FirstFormat(a, b, c) ==
    IF a.ok THEN DtV(a.n)
    ELSE IF b.ok THEN DtV(b.n)
    ELSE IF c.ok THEN DtV(c.n)
    ELSE None

\* the loop of parse_dt over the formats
ParseDtText(s) == FirstFormat(StrptimeMinutes(s), StrptimeSeconds(s), StrptimeDate(s))

\* parse_dt: a datetime as it is, None for a false value, else the first of
\* the three formats that accepts str(v), else None
parse_dt(v) ==
    IF v.t = "dt" THEN v
    ELSE IF ~Truthy(v) THEN None
    ELSE ParseDtText(PyStr(v))

(***************************************************************************)
(* The texts the source names: columns, argument names, function names.    *)
(***************************************************************************)
s_Line == <<"L","i","n","e">>
s_SKU == <<"S","K","U">>
s_SKU_Resolved == <<"S","K","U","_","R","e","s","o","l","v","e","d">>
s_Machine == <<"M","a","c","h","i","n","e">>
s_Cause == <<"C","a","u","s","e">>
s_StartDT == <<"S","t","a","r","t","D","T">>
s_EndDT == <<"E","n","d","D","T">>
s_HourEndingDT == <<"H","o","u","r","E","n","d","i","n","g","D","T">>
s_TargetAttain == <<"T","a","r","g","e","t","A","t","t","a","i","n">>
s_ActualCases == <<"A","c","t","u","a","l","C","a","s","e","s">>
s_PlannedCases == <<"P","l","a","n","n","e","d","C","a","s","e","s">>
s_groupby == <<"g","r","o","u","p","b","y">>
s_threshold == <<"t","h","r","e","s","h","o","l","d">>
s_hours == <<"h","o","u","r","s">>
s_metric == <<"m","e","t","r","i","c">>
s_where == <<"w","h","e","r","e">>
s_window_hours == <<"w","i","n","d","o","w","_","h","o","u","r","s">>
s_min == <<"m","i","n">>
s_min_repeats == <<"m","i","n","_","r","e","p","e","a","t","s">>
s_pct == <<"p","c","t">>
s_LineTemplate == <<"=","{","L","i","n","e","}">>
s_LineWhere == <<"L","i","n","e","=","{","L","i","n","e","}">>
s_LineMachineCause == <<"L","i","n","e",",","M","a","c","h","i","n","e",",","C","a","u","s","e">>
s_CONSEC_BELOW == <<"C","O","N","S","E","C","_","B","E","L","O","W">>
s_ROLLING_COUNT == <<"R","O","L","L","I","N","G","_","C","O","U","N","T">>
s_MISSING_STANDARD == <<"M","I","S","S","I","N","G","_","S","T","A","N","D","A","R","D">>
s_SCHEDULE_OVERLAP == <<"S","C","H","E","D","U","L","E","_","O","V","E","R","L","A","P">>
s_REPEAT_CAUSE == <<"R","E","P","E","A","T","_","C","A","U","S","E">>
s_FORECAST_SHORTFALL == <<"F","O","R","E","C","A","S","T","_","S","H","O","R","T","F","A","L","L">>
s_TRUE == <<"T","R","U","E">>
s_Unknown == <<"U","n","k","n","o","w","n">>
s_Info == <<"I","n","f","o">>
s_Watch == <<"W","a","t","c","h">>
s_Action == <<"A","c","t","i","o","n">>
s_Urgent == <<"U","r","g","e","n","t">>

(***************************************************************************)
(* Predicate library.  A row is a mapping from column texts to values; a   *)
(* hit key is a tuple of values.                                           *)
(***************************************************************************)
\* tuple(row.get(g) for g in groupby)
KeyOf(row, by) == [i \in DOMAIN by |-> Get(row, by[i], None)]

\* seq[-k:] of Python: the last k elements for k > 0, the whole list for
\* k = 0, the list without its first -k elements for k < 0
LastSlice(seq, k) ==
    IF k > 0 THEN SubSeq(seq, IF Len(seq) > k THEN Len(seq) - k + 1 ELSE 1, Len(seq))
    ELSE SubSeq(seq, 1 - k, Len(seq))

\* seq[:-1] of Python
DropLast(seq) == SubSeq(seq, 1, Len(seq) - 1)

\* the sum of a list of numbers
RECURSIVE SumSeq(_)
SumSeq(seq) == IF seq = <<>> THEN 0 ELSE Head(seq) + SumSeq(Tail(seq))

\* the elements of rows whose index is in I, in their order
RECURSIVE Pick(_, _, _)
Pick(rows, I, i) ==
    IF i > Len(rows) THEN <<>>
    ELSE (IF i \in I THEN <<rows[i]>> ELSE <<>>) \o Pick(rows, I, i + 1)

\* a variant of the streak loop that counts a value equal to the threshold
RECURSIVE StreakHitInclusive(_, _, _, _, _)
StreakHitInclusive(values, threshold, consecutive_hours, i, streak) ==
    IF i > Len(values) THEN FALSE
    ELSE LET st == IF values[i] <= threshold THEN streak + 1 ELSE 0 IN
         IF st >= consecutive_hours THEN TRUE
         ELSE StreakHitInclusive(values, threshold, consecutive_hours, i + 1, st)

\* the streak loop of consecutive_below over values, from index i on
RECURSIVE StreakHit(_, _, _, _, _)
StreakHit(values, threshold, consecutive_hours, i, streak) ==
    IF i > Len(values) THEN FALSE
    ELSE LET st == IF values[i] < threshold THEN streak + 1 ELSE 0 IN
         IF st >= consecutive_hours THEN TRUE
         ELSE StreakHit(values, threshold, consecutive_hours, i + 1, st)

\* consecutive_below: the keys it returns (threshold in hundredths)
consecutive_below(metric_series, threshold, consecutive_hours, groupby, metric) ==
    LET keys == {KeyOf(metric_series[i], groupby) : i \in DOMAIN metric_series}
        grouped(key) ==
            LET I == {i \in DOMAIN metric_series : KeyOf(metric_series[i], groupby) = key}
                rows == Pick(metric_series, I, 1)
            IN [j \in DOMAIN rows |-> to_float(Get(rows[j], metric, None))]
    IN {key \in keys :
          StreakHit(LastSlice(grouped(key), consecutive_hours * 2),
                    threshold, consecutive_hours, 1, 0)}

\* a or b of Python
PyOr(a, b) == IF Truthy(a) THEN a ELSE b

\* a variant that counts the events without a time as well
CountsUntimed(events, window_hours, by, now) ==
    LET cutoff == now - window_hours * TicksPerHour
        t(e) == parse_dt(PyOr(Get(e, s_StartDT, None), Get(e, s_HourEndingDT, None)))
        I == {i \in DOMAIN events : t(events[i]) = None \/ t(events[i]).n >= cutoff}
    IN [key \in {KeyOf(events[i], by) : i \in I} |->
            Cardinality({i \in I : KeyOf(events[i], by) = key})]

\* rolling_count at the instant now: the counts, a mapping from keys
rolling_count(events, window_hours, by, now) ==
    LET cutoff == now - window_hours * TicksPerHour
        t(e) == parse_dt(PyOr(Get(e, s_StartDT, None), Get(e, s_HourEndingDT, None)))
        I == {i \in DOMAIN events : t(events[i]) # None /\ t(events[i]).n >= cutoff}
    IN [key \in {KeyOf(events[i], by) : i \in I} |->
            Cardinality({i \in I : KeyOf(events[i], by) = key})]

\* repeats_same_value
repeats_same_value(rows, field, min_repeats, window_hours, by, now) ==
    LET recent == rolling_count(rows, window_hours, by \o <<field>>, now)
    IN {k \in DOMAIN recent : recent[k] >= min_repeats}

\* a variant that leaves out a shortfall of exactly the threshold
ShortfallAboveThreshold(planned, forecast, pct_threshold) ==
    IF planned <= 0 THEN FALSE
    ELSE 100 * (planned - forecast) > pct_threshold * planned

\* forecast_shortfall: planned and forecast in one unit, pct_threshold in
\* hundredths; (planned - forecast) / planned >= pct_threshold is taken in
\* exact arithmetic
forecast_shortfall(planned, forecast, pct_threshold) ==
    IF planned <= 0 THEN FALSE
    ELSE 100 * (planned - forecast) >= pct_threshold * planned

\* a variant that asks only whether the line has any standard
MissingForLine(line, sku, standards) == \A pair \in standards : pair[1] # line

\* missing_standard
missing_standard(line, sku, standards) == <<line, sku>> \notin standards

\* the sort key of a slot in schedule_overlap: its start, or datetime.min
StartsBefore(a, b) ==
    IF b[1] = None THEN FALSE
    ELSE IF a[1] = None THEN TRUE ELSE a[1].n < b[1].n

\* sorted(slots, key=start): the slot at each place of the stable order
SortSlots(slots) ==
    LET place(i) == Cardinality({j \in DOMAIN slots : StartsBefore(slots[j], slots[i])})
                    + Cardinality({j \in 1..i : ~StartsBefore(slots[j], slots[i])
                                                /\ ~StartsBefore(slots[i], slots[j])})
    IN [p \in DOMAIN slots |-> slots[CHOOSE i \in DOMAIN slots : place(i) = p]]

\* a variant that also reports a slot starting when the one before it ends
OverlapOrTouch(schedule_rows, line) ==
    LET I == {i \in DOMAIN schedule_rows : Get(schedule_rows[i], s_Line, None) = line}
        mine == Pick(schedule_rows, I, 1)
        slots == SortSlots([j \in DOMAIN mine |->
                    <<parse_dt(Get(mine[j], s_StartDT, None)),
                      parse_dt(Get(mine[j], s_EndDT, None))>>])
    IN \E i \in 2..Len(slots) :
          /\ slots[i - 1][2] # None
          /\ slots[i][1] # None
          /\ slots[i][1].n <= slots[i - 1][2].n

\* schedule_overlap
schedule_overlap(schedule_rows, line) ==
    LET I == {i \in DOMAIN schedule_rows : Get(schedule_rows[i], s_Line, None) = line}
        mine == Pick(schedule_rows, I, 1)
        slots == SortSlots([j \in DOMAIN mine |->
                    <<parse_dt(Get(mine[j], s_StartDT, None)),
                      parse_dt(Get(mine[j], s_EndDT, None))>>])
    IN \E i \in 2..Len(slots) :
          /\ slots[i - 1][2] # None
          /\ slots[i][1] # None
          /\ slots[i][1].n < slots[i - 1][2].n

s_RuleID == <<"R","u","l","e","I","D">>
s_Enabled == <<"E","n","a","b","l","e","d">>
s_Severity == <<"S","e","v","e","r","i","t","y">>
s_Scope == <<"S","c","o","p","e">>
s_Description == <<"D","e","s","c","r","i","p","t","i","o","n">>
s_IfLogic == <<"I","f","L","o","g","i","c">>
s_ThenRecommendation == <<"T","h","e","n","R","e","c","o","m","m","e","n","d","a","t","i","o","n">>
s_disciplinary == <<"d","i","s","c","i","p","l","i","n","a","r","y">>
s_write_up == <<"w","r","i","t","e","-","u","p">>
s_punish == <<"p","u","n","i","s","h">>
s_terminate == <<"t","e","r","m","i","n","a","t","e">>
\* Provide coaching and process support to remove the operational barrier.
s_Fallback ==
    <<"P","r","o","v","i","d","e"," ","c","o","a","c","h","i","n","g"," ","a","n","d"," ","p",
      "r","o","c","e","s","s"," ","s","u","p","p","o","r","t"," ","t","o"," ","r","e","m","o",
      "v","e"," ","t","h","e"," ","o","p","e","r","a","t","i","o","n","a","l"," ","b","a","r",
      "r","i","e","r",".">>

(***************************************************************************)
(* Rule evaluator: the branches of evaluate_rules, one per function name.  *)
(* The outcome of a call: it raised, or it was evaluated (known) and gave  *)
(* a hit-set, or its name matched no branch and nothing was appended.      *)
(***************************************************************************)
CallRaised == [ok |-> FALSE, known |-> TRUE, hits |-> {}]
CallHits(h) == [ok |-> TRUE, known |-> TRUE, hits |-> h]
CallIgnored == [ok |-> TRUE, known |-> FALSE, hits |-> {}]

\* SEVERITY_ORDER.get(severity, 0)
SEVERITY_ORDER(severity) ==
    IF severity = StrV(s_Urgent) THEN 4
    ELSE IF severity = StrV(s_Action) THEN 3
    ELSE IF severity = StrV(s_Watch) THEN 2
    ELSE IF severity = StrV(s_Info) THEN 1
    ELSE 0

\* the standards index built before the rule loop
StandardsOf(standards_rows) ==
    {<<Get(standards_rows[i], s_Line, None), Get(standards_rows[i], s_SKU, None)>> :
        i \in DOMAIN standards_rows}

NonEmptyText(g) == g # <<>>

BranchConsecBelow(args, hourly_rows) ==
    LET group == SplitChar(PyStr(Get(args, s_groupby, StrV(s_Line))), ",")
        threshold == PyFloat(Get(args, s_threshold, FloatV(70)))
        hours == PyInt(Get(args, s_hours, IntV(2)))
        metric == PyStr(Get(args, s_metric, StrV(s_TargetAttain)))
    IN IF ~threshold.ok \/ ~hours.ok THEN CallRaised
       ELSE CallHits(consecutive_below(hourly_rows, threshold.n, hours.n, group, metric))

BranchRollingCount(args, downtime_rows, now) ==
    LET where == PyStr(Get(args, s_where, StrV(s_LineWhere)))
        group == SelectSeq(SplitChar(Replace(where, s_LineTemplate, <<>>), ","), NonEmptyText)
        window == PyInt(Get(args, s_window_hours, IntV(2)))
        counts == rolling_count(downtime_rows, window.n,
                                IF group = <<>> THEN <<s_Line>> ELSE group, now)
        min == PyInt(Get(args, s_min, IntV(1)))
    IN IF ~window.ok THEN CallRaised
       ELSE IF DOMAIN counts = {} THEN CallHits({})
       ELSE IF ~min.ok THEN CallRaised
       ELSE CallHits({k \in DOMAIN counts : counts[k] >= min.n})

BranchMissingStandard(hourly_rows, standards) ==
    CallHits({<<Get(hourly_rows[i], s_Line, None), Get(hourly_rows[i], s_SKU_Resolved, None)>> :
                i \in {j \in DOMAIN hourly_rows :
                        missing_standard(Get(hourly_rows[j], s_Line, None),
                                         Get(hourly_rows[j], s_SKU_Resolved, None),
                                         standards)}})

BranchScheduleOverlap(schedule_rows) ==
    LET lines == {Get(schedule_rows[i], s_Line, None) : i \in DOMAIN schedule_rows}
    IN CallHits({<<l>> : l \in {x \in lines : schedule_overlap(schedule_rows, x)}})

BranchRepeatCause(args, downtime_rows, now) ==
    LET group == SplitChar(PyStr(Get(args, s_groupby, StrV(s_LineMachineCause))), ",")
        min_repeats == PyInt(Get(args, s_min_repeats, IntV(3)))
        window == PyInt(Get(args, s_window_hours, IntV(12)))
    IN IF ~min_repeats.ok \/ ~window.ok THEN CallRaised
       ELSE CallHits(repeats_same_value(downtime_rows, s_Cause, min_repeats.n,
                                        window.n, DropLast(group), now))

\* amounts are handed to forecast_shortfall in six-hundredths, the unit in
\* which sum(vals) + 2 * sum(vals[-3:]) / m is whole for m = 1, 2, 3
BranchForecastShortfall(args, hourly_rows, schedule_rows) ==
    LET lines == {Get(hourly_rows[i], s_Line, None) : i \in DOMAIN hourly_rows}
        vals(line) ==
            LET rows == Pick(hourly_rows,
                             {i \in DOMAIN hourly_rows :
                                Get(hourly_rows[i], s_Line, None) = line}, 1)
            IN [j \in DOMAIN rows |-> to_float(Get(rows[j], s_ActualCases, None))]
        planned(line) ==
            LET rows == Pick(schedule_rows,
                             {i \in DOMAIN schedule_rows :
                                Get(schedule_rows[i], s_Line, None) = line}, 1)
            IN SumSeq([j \in DOMAIN rows |-> to_float(Get(rows[j], s_PlannedCases, None))])
        m(line) == IF Len(vals(line)) < 3 THEN Len(vals(line)) ELSE 3
        forecast(line) ==
            6 * SumSeq(vals(line)) + (12 \div m(line)) * SumSeq(LastSlice(vals(line), 3))
        pct == PyFloat(Get(args, s_pct, FloatV(10)))
    IN IF lines = {} THEN CallHits({})
       ELSE IF ~pct.ok THEN CallRaised
       ELSE CallHits({<<l>> : l \in {x \in lines :
                        forecast_shortfall(6 * planned(x), forecast(x), pct.n)}})

\* one pass of the loop over the parsed calls of a rule, at the instant now;
\* D holds the four row collections
EvalCall(call, D, now) ==
    CASE call.fn = s_CONSEC_BELOW -> BranchConsecBelow(call.args, D.hourly_rows)
      [] call.fn = s_ROLLING_COUNT -> BranchRollingCount(call.args, D.downtime_rows, now)
      [] call.fn = s_MISSING_STANDARD ->
            BranchMissingStandard(D.hourly_rows, StandardsOf(D.standards_rows))
      [] call.fn = s_SCHEDULE_OVERLAP -> BranchScheduleOverlap(D.schedule_rows)
      [] call.fn = s_REPEAT_CAUSE -> BranchRepeatCause(call.args, D.downtime_rows, now)
      [] call.fn = s_FORECAST_SHORTFALL ->
            BranchForecastShortfall(call.args, D.hourly_rows, D.schedule_rows)
      [] OTHER -> CallIgnored

\* a variant that takes every rule with a non-empty flag for enabled
EnabledUnlessBlank(rule) == PyStr(Get(rule, s_Enabled, StrV(<<>>))) # <<>>

\* str(rule.get("Enabled", "")).upper() != "TRUE" is false
IsEnabled(rule) == Upper(PyStr(Get(rule, s_Enabled, StrV(<<>>)))) = s_TRUE

\* a variant that matches the keys on their first component, the line
IntersectOnLine(rule_hits) ==
    {h \in rule_hits[1] : \A i \in DOMAIN rule_hits : \E g \in rule_hits[i] : g[1] = h[1]}

\* set.intersection(*rule_hits) if len(rule_hits) > 1 else set(rule_hits[0])
Intersection(rule_hits) ==
    {h \in rule_hits[1] : \A i \in DOMAIN rule_hits : h \in rule_hits[i]}

\* sanitize_recommendation
banned == <<s_disciplinary, s_write_up, s_punish, s_terminate>>

\* a variant that looks for the terms in the text as written
SanitizeAsWritten(text) ==
    IF \E i \in DOMAIN banned : Contains(text, banned[i])
    THEN s_Fallback ELSE text

sanitize_recommendation(text) ==
    IF \E i \in DOMAIN banned : Contains(Lower(text), banned[i])
    THEN s_Fallback ELSE text

\* ",".join(str(x) for x in h if x not in (None, ""))
NotBlank(x) == ~IsBlank(x)

\* a variant that joins every component, blank or not
EntityOfEveryComponent(h) == Join([i \in DOMAIN h |-> PyStr(h[i])], <<",">>)

EntityOf(h) ==
    LET kept == SelectSeq(h, NotBlank)
    IN Join([i \in DOMAIN kept |-> PyStr(kept[i])], <<",">>)

\* the Trigger built for hit key h of rule at the instant now; the
\* timestamp is the clock reading, which isoformat orders as the clock does
MakeTrigger(rule, h, now) ==
    LET entity == EntityOf(h) IN
    [rule_id |-> Get(rule, s_RuleID, StrV(<<>>)),
     severity |-> Get(rule, s_Severity, StrV(s_Info)),
     trigger |-> PyStr(Get(rule, s_Description, StrV(<<>>))),
     evidence |-> PyStr(Get(rule, s_IfLogic, StrV(<<>>))),
     recommendation |->
        sanitize_recommendation(PyStr(Get(rule, s_ThenRecommendation, StrV(<<>>)))),
     scope |-> Get(rule, s_Scope, StrV(s_Line)),
     affected_entity |-> IF entity = <<>> THEN s_Unknown ELSE entity,
     timestamp |-> now,
     impact |-> Len(entity)]

\* a variant that ranks the least severe first
SortKeyMildestFirst(t) == <<SEVERITY_ORDER(t.severity), 0 - t.impact, t.timestamp>>

\* the sort key (-SEVERITY_ORDER.get(severity, 0), -impact, timestamp)
SortKey(t) == <<0 - SEVERITY_ORDER(t.severity), 0 - t.impact, t.timestamp>>

\* tuple comparison of two sort keys
KeyLess(a, b) ==
    \/ a[1] < b[1]
    \/ a[1] = b[1] /\ a[2] < b[2]
    \/ a[1] = b[1] /\ a[2] = b[2] /\ a[3] < b[3]

\* a variant that puts the later of two entries with equal keys first
SortLatestFirst(list) ==
    LET place(i) ==
            Cardinality({j \in DOMAIN list :
                            KeyLess(SortKey(list[j].trig), SortKey(list[i].trig))})
            + Cardinality({j \in i..Len(list) : SortKey(list[j].trig) = SortKey(list[i].trig)})
    IN [p \in DOMAIN list |-> list[CHOOSE i \in DOMAIN list : place(i) = p]]

\* list.sort(key=...): the stable order; each entry carries its Trigger in
\* field trig
SortTriggers(list) ==
    LET place(i) ==
            Cardinality({j \in DOMAIN list :
                            KeyLess(SortKey(list[j].trig), SortKey(list[i].trig))})
            + Cardinality({j \in 1..i : SortKey(list[j].trig) = SortKey(list[i].trig)})
    IN [p \in DOMAIN list |-> list[CHOOSE i \in DOMAIN list : place(i) = p]]

(***************************************************************************)
(* The inputs of the model: rule tables and data snapshots.                *)
(***************************************************************************)
s_FALSE == <<"F","A","L","S","E">>
s_true == <<"t","r","u","e">>
s_Shift == <<"S","h","i","f","t">>
s_Critical == <<"C","r","i","t","i","c","a","l">>
s_L1 == <<"L","1">>
s_L2 == <<"L","2">>
s_S1 == <<"S","1">>
s_S2 == <<"S","2">>
s_M1 == <<"M","1">>
s_Jam == <<"J","a","m">>
s_R1 == <<"R","1">>
s_R2 == <<"R","2">>
s_R4 == <<"R","4">>
s_R5 == <<"R","5">>
s_R6 == <<"R","6">>
s_R7 == <<"R","7">>
s_R8 == <<"R","8">>
s_R9 == <<"R","9">>
s_R10 == <<"R","1","0">>
\* MISSING_STANDARD(groupby="Line,SKU_Resolved")
c_Missing ==
    <<"M","I","S","S","I","N","G","_","S","T","A","N","D","A","R","D","(","g","r","o","u","p",
      "b","y","=","\"","L","i","n","e",",","S","K","U","_","R","e","s","o","l","v","e","d","\"",
      ")">>
\* CONSEC_BELOW(metric="TargetAttain", threshold=0.70, hours=2, groupby="Line") AND ROLLING_COUNT(table="Downtime", window_hours=2, where="Line={Line}", min=4)
c_Default1 ==
    <<"C","O","N","S","E","C","_","B","E","L","O","W","(","m","e","t","r","i","c","=","\"","T",
      "a","r","g","e","t","A","t","t","a","i","n","\"",","," ","t","h","r","e","s","h","o","l",
      "d","=","0",".","7","0",","," ","h","o","u","r","s","=","2",","," ","g","r","o","u","p",
      "b","y","=","\"","L","i","n","e","\"",")"," ","A","N","D"," ","R","O","L","L","I","N","G",
      "_","C","O","U","N","T","(","t","a","b","l","e","=","\"","D","o","w","n","t","i","m","e",
      "\"",","," ","w","i","n","d","o","w","_","h","o","u","r","s","=","2",","," ","w","h","e",
      "r","e","=","\"","L","i","n","e","=","{","L","i","n","e","}","\"",","," ","m","i","n","=",
      "4",")">>
c_Overlap == <<"S","C","H","E","D","U","L","E","_","O","V","E","R","L","A","P","(",")">>
\* FORECAST_SHORTFALL(pct=0.10)
c_Forecast ==
    <<"F","O","R","E","C","A","S","T","_","S","H","O","R","T","F","A","L","L","(","p","c","t",
      "=","0",".","1","0",")">>
c_Malformed == <<"c","o","n","s","e","c"," ","b","e","l","o","w"," ","0",".","7">>
\* FOO() AND SCHEDULE_OVERLAP()
c_Unknown ==
    <<"F","O","O","(",")"," ","A","N","D"," ","S","C","H","E","D","U","L","E","_","O","V","E",
      "R","L","A","P","(",")">>
\* CONSEC_BELOW(threshold="low")
c_BadArg ==
    <<"C","O","N","S","E","C","_","B","E","L","O","W","(","t","h","r","e","s","h","o","l","d",
      "=","\"","l","o","w","\"",")">>
\* REPEAT_CAUSE(groupby="Line,Machine,Cause", min_repeats=2, window_hours=12)
c_Repeat ==
    <<"R","E","P","E","A","T","_","C","A","U","S","E","(","g","r","o","u","p","b","y","=","\"",
      "L","i","n","e",",","M","a","c","h","i","n","e",",","C","a","u","s","e","\"",","," ","m",
      "i","n","_","r","e","p","e","a","t","s","=","2",","," ","w","i","n","d","o","w","_","h",
      "o","u","r","s","=","1","2",")">>
\* Run rapid loss review.
r_Review ==
    <<"R","u","n"," ","r","a","p","i","d"," ","l","o","s","s"," ","r","e","v","i","e","w",".">>
r_AddStd == <<"A","d","d"," ","s","t","a","n","d","a","r","d">>
\* Issue a write-up to the operator
r_WriteUp ==
    <<"I","s","s","u","e"," ","a"," ","w","r","i","t","e","-","u","p"," ","t","o"," ","t","h",
      "e"," ","o","p","e","r","a","t","o","r">>
\* PUNISH repeat offenders
r_Punish ==
    <<"P","U","N","I","S","H"," ","r","e","p","e","a","t"," ","o","f","f","e","n","d","e","r",
      "s">>
\* Provide extra training
r_Train ==
    <<"P","r","o","v","i","d","e"," ","e","x","t","r","a"," ","t","r","a","i","n","i","n","g">>
d_Desc == <<"d","e","s","c">>

\* a rule row with the columns evaluate_rules reads
Rule(id, enabled, severity, scope, iflogic, recommendation) ==
    MkDict(<< <<s_RuleID, id>>, <<s_Enabled, enabled>>, <<s_Severity, severity>>,
              <<s_Scope, scope>>, <<s_Description, StrV(d_Desc)>>, <<s_IfLogic, iflogic>>,
              <<s_ThenRecommendation, recommendation>> >>)

\* the rules a table is drawn from: the two shipped defaults (R1, R2) with
\* shortened texts, a disabled rule that shares R2's identifier, a rule
\* enabled in lower case, a rule enabled by a boolean cell and of unknown
\* severity, an empty condition, a malformed condition, an unknown function
\* name, an unusable argument, a REPEAT_CAUSE rule
RuleCatalogue ==
    << Rule(StrV(s_R1), StrV(s_TRUE), StrV(s_Action), StrV(s_Line), StrV(c_Default1), StrV(r_Review)),
       Rule(StrV(s_R2), StrV(s_TRUE), StrV(s_Urgent), StrV(s_Line), StrV(c_Missing), StrV(r_AddStd)),
       Rule(StrV(s_R2), StrV(s_FALSE), StrV(s_Urgent), StrV(s_Line), StrV(c_Overlap), StrV(r_Train)),
       Rule(StrV(s_R4), StrV(s_true), StrV(s_Watch), StrV(s_Shift), StrV(c_Overlap), StrV(r_WriteUp)),
       Rule(StrV(s_R5), BoolV(1), StrV(s_Critical), StrV(s_Line), StrV(c_Forecast), StrV(r_Punish)),
       Rule(StrV(s_R6), StrV(s_TRUE), StrV(s_Info), StrV(s_Line), StrV(<<>>), StrV(r_Train)),
       Rule(StrV(s_R7), StrV(s_TRUE), StrV(s_Info), StrV(s_Line), StrV(c_Malformed), StrV(r_Train)),
       Rule(StrV(s_R8), StrV(s_TRUE), StrV(s_Action), StrV(s_Line), StrV(c_Unknown), None),
       Rule(StrV(s_R9), StrV(s_TRUE), StrV(s_Watch), StrV(s_Line), StrV(c_BadArg), StrV(r_Train)),
       Rule(StrV(s_R10), StrV(s_TRUE), StrV(s_Watch), StrV(s_Line), StrV(c_Repeat), StrV(r_Train)) >>

\* every sequence of at most n elements of S
SeqsUpTo(S, n) == UNION {[1..k -> S] : k \in 0..n}

RuleTables == SeqsUpTo({RuleCatalogue[i] : i \in DOMAIN RuleCatalogue}, MaxRules)

\* a datetime cell: hour h of day 0 of the model's clock
At(h) == DtV(h * TicksPerHour)

Hourly(line, sku, attain, cases, h) ==
    MkDict(<< <<s_Line, line>>, <<s_SKU_Resolved, sku>>, <<s_TargetAttain, attain>>,
              <<s_ActualCases, cases>>, <<s_HourEndingDT, At(h)>> >>)
Slot(line, from, to, planned) ==
    MkDict(<< <<s_Line, line>>, <<s_StartDT, At(from)>>, <<s_EndDT, At(to)>>,
              <<s_PlannedCases, planned>> >>)
Event(line, machine, cause, start) ==
    MkDict(<< <<s_Line, line>>, <<s_Machine, machine>>, <<s_Cause, cause>>,
              <<s_StartDT, start>> >>)
Standard(line, sku) == MkDict(<< <<s_Line, line>>, <<s_SKU, sku>> >>)

\* the evaluation instant at the start of a pass: 12:00 of day 0
StartClock == 12 * TicksPerHour

\* Line 1 runs 0.9, 0.6, 0.6, 0.9 against its target, has overlapping slots
\* and four recent stops; Line 2 runs a SKU without a standard; one hourly
\* row names no line and no SKU
SnapshotA ==
    [hourly_rows |->
        << Hourly(StrV(s_L1), StrV(s_S1), FloatV(90), IntV(40), 9),
           Hourly(StrV(s_L1), StrV(s_S1), FloatV(60), IntV(20), 10),
           Hourly(StrV(s_L2), StrV(s_S2), FloatV(65), IntV(90), 10),
           Hourly(StrV(s_L1), StrV(s_S1), FloatV(60), IntV(20), 11),
           Hourly(None, None, StrV(<<"=","B","2">>), None, 11),
           Hourly(StrV(s_L1), StrV(s_S1), FloatV(90), IntV(40), 12) >>,
     schedule_rows |->
        << Slot(StrV(s_L1), 9, 13, IntV(200)),
           Slot(StrV(s_L1), 6, 10, IntV(200)),
           Slot(StrV(s_L2), 6, 10, IntV(50)),
           Slot(StrV(s_L2), 10, 14, IntV(50)) >>,
     downtime_rows |->
        << Event(StrV(s_L1), StrV(s_M1), StrV(s_Jam), At(11)),
           Event(StrV(s_L1), StrV(s_M1), StrV(s_Jam), At(11)),
           Event(StrV(s_L1), StrV(s_M1), None, At(12)),
           Event(StrV(s_L1), None, StrV(s_Jam), At(12)),
           Event(StrV(s_L2), StrV(s_M1), StrV(s_Jam), At(3)),
           Event(StrV(s_L2), StrV(s_M1), StrV(s_Jam), None) >>,
     standards_rows |-> << Standard(StrV(s_L1), StrV(s_S1)) >>]

\* a quiet shift: every line meets its target, no overlap, no stop, and
\* every SKU has its standard
SnapshotB ==
    [hourly_rows |->
        << Hourly(StrV(s_L1), StrV(s_S1), FloatV(90), IntV(100), 11),
           Hourly(StrV(s_L1), StrV(s_S1), FloatV(70), IntV(100), 12) >>,
     schedule_rows |-> << Slot(StrV(s_L1), 6, 10, IntV(200)) >>,
     downtime_rows |-> << >>,
     standards_rows |-> << Standard(StrV(s_L1), StrV(s_S1)) >>]

Snapshots == {SnapshotA, SnapshotB}

(***************************************************************************)
(* evaluate_rules as a state machine.                                      *)
(*   rules, data   the arguments of the call                               *)
(*   clock, ticks  the wall clock and how often it advanced in this pass   *)
(*   pc            "rule" at the head of the rule loop, "call" in the loop *)
(*                 over the parsed calls, "emit" in the loop over the      *)
(*                 surviving keys, "done" after the return, "raised" when  *)
(*                 an exception left the function                          *)
(*   idx           index of the current rule                               *)
(*   parsed, ci    the calls of the current rule and the next one to run   *)
(*   rule_hits     the hit-sets appended so far for the current rule       *)
(*   pending       the surviving keys not iterated yet                     *)
(*   triggers      the list under construction; each entry holds the       *)
(*                 Trigger (trig) and, for the record only, the index of   *)
(*                 the rule and the key it was emitted for                 *)
(*   result        the returned list                                       *)
(* A predicate of the library called on its own has its arguments in       *)
(* call_in and what it returned in call_out, with pc "calling" before and  *)
(* "returned" after the call.  lint_issues is the list lint_rules returned  *)
(* when analyze ran it before the pass (pc "lint" until then).  disk holds *)
(* the files the scripts read and write: the workbook, the exported rules  *)
(* document and the history database, each absent or with its contents.    *)
(***************************************************************************)
VARIABLES rules, data, clock, ticks, pc, idx, parsed, ci, rule_hits, pending,
          triggers, result, call_in, call_out, lint_issues, disk

vars == <<rules, data, clock, ticks, pc, idx, parsed, ci, rule_hits, pending,
          triggers, result, call_in, call_out, lint_issues, disk>>
inputs == <<rules, data, call_in, call_out, lint_issues, disk>>

\* no predicate is called on its own during a pass of evaluate_rules
NoCall == [fn |-> <<>>]
Absent == [exists |-> FALSE]
NoDisk == [workbook |-> Absent, rules_json |-> Absent, history |-> Absent]

Init ==
    /\ rules \in RuleTables
    /\ data \in Snapshots
    /\ clock = StartClock
    /\ ticks = 0
    /\ pc = "rule"
    /\ idx = 1
    /\ parsed = <<>>
    /\ ci = 1
    /\ rule_hits = <<>>
    /\ pending = {}
    /\ triggers = <<>>
    /\ result = <<>>
    /\ call_in = NoCall
    /\ call_out = {}
    /\ lint_issues = <<>>
    /\ disk = NoDisk

\* the condition text of a rule as evaluate_rules reads it
ConditionOf(rule) == PyStr(Get(rule, s_IfLogic, StrV(<<>>)))

\* line 213: a rule that is not enabled is passed over
SkipDisabled ==
    /\ pc = "rule" /\ idx <= Len(rules)
    /\ ~IsEnabled(rules[idx])
    /\ idx' = idx + 1
    /\ UNCHANGED <<inputs, clock, ticks, pc, parsed, ci, rule_hits, pending, triggers, result>>

\* line 215: parse_iflogic raises and the exception leaves evaluate_rules
ParseRaises ==
    /\ pc = "rule" /\ idx <= Len(rules)
    /\ IsEnabled(rules[idx])
    /\ ~parse_iflogic(ConditionOf(rules[idx])).ok
    /\ pc' = "raised"
    /\ UNCHANGED <<inputs, clock, ticks, idx, parsed, ci, rule_hits, pending, triggers, result>>

\* lines 215-216: the condition is parsed and rule_hits starts empty
BeginCalls ==
    /\ pc = "rule" /\ idx <= Len(rules)
    /\ IsEnabled(rules[idx])
    /\ parse_iflogic(ConditionOf(rules[idx])).ok
    /\ parsed' = parse_iflogic(ConditionOf(rules[idx])).calls
    /\ ci' = 1
    /\ rule_hits' = <<>>
    /\ pc' = "call"
    /\ UNCHANGED <<inputs, clock, ticks, idx, pending, triggers, result>>

\* the outcome of the call the loop is at, evaluated now
CurrentCall == EvalCall(parsed[ci], data, clock)

\* lines 218-252: a branch raises on an argument it cannot convert
CallRaises ==
    /\ pc = "call" /\ ci <= Len(parsed)
    /\ ~CurrentCall.ok
    /\ pc' = "raised"
    /\ UNCHANGED <<inputs, clock, ticks, idx, parsed, ci, rule_hits, pending, triggers, result>>

\* lines 218-252: a branch appends its hit-set
CallAppends ==
    /\ pc = "call" /\ ci <= Len(parsed)
    /\ CurrentCall.ok /\ CurrentCall.known
    /\ rule_hits' = Append(rule_hits, CurrentCall.hits)
    /\ ci' = ci + 1
    /\ UNCHANGED <<inputs, clock, ticks, pc, idx, parsed, pending, triggers, result>>

\* lines 218-252: no branch matches the function name
CallSkipped ==
    /\ pc = "call" /\ ci <= Len(parsed)
    /\ CurrentCall.ok /\ ~CurrentCall.known
    /\ ci' = ci + 1
    /\ UNCHANGED <<inputs, clock, ticks, pc, idx, parsed, rule_hits, pending, triggers, result>>

\* lines 254-255: no hit-set was appended, the rule emits nothing
NoHitSets ==
    /\ pc = "call" /\ ci > Len(parsed)
    /\ rule_hits = <<>>
    /\ idx' = idx + 1
    /\ pc' = "rule"
    /\ UNCHANGED <<inputs, clock, ticks, parsed, ci, rule_hits, pending, triggers, result>>

\* line 256: the hit-sets are intersected
Intersect ==
    /\ pc = "call" /\ ci > Len(parsed)
    /\ rule_hits # <<>>
    /\ pending' = Intersection(rule_hits)
    /\ pc' = "emit"
    /\ UNCHANGED <<inputs, clock, ticks, idx, parsed, ci, rule_hits, triggers, result>>

\* lines 257-261: one pass of the loop over the surviving keys, which a set
\* yields in no specified order; the clock is read in each pass
Emit ==
    /\ pc = "emit"
    /\ \E h \in pending :
        /\ triggers' = Append(triggers,
                [trig |-> MakeTrigger(rules[idx], h, clock), rule |-> idx, key |-> h])
        /\ pending' = pending \ {h}
    /\ UNCHANGED <<inputs, clock, ticks, pc, idx, parsed, ci, rule_hits, result>>

\* the loop over the surviving keys ends, the rule loop goes on
EndRule ==
    /\ pc = "emit" /\ pending = {}
    /\ idx' = idx + 1
    /\ pc' = "rule"
    /\ UNCHANGED <<inputs, clock, ticks, parsed, ci, rule_hits, pending, triggers, result>>

\* lines 263-264: the list is sorted and returned
Return ==
    /\ pc = "rule" /\ idx > Len(rules)
    /\ result' = SortTriggers(triggers)
    /\ pc' = "done"
    /\ UNCHANGED <<inputs, clock, ticks, idx, parsed, ci, rule_hits, pending, triggers>>

\* the wall clock advances while the pass runs
Tick ==
    /\ pc \in {"rule", "call", "emit"}
    /\ ticks < MaxTicks
    /\ clock' = clock + 1
    /\ ticks' = ticks + 1
    /\ UNCHANGED <<inputs, pc, idx, parsed, ci, rule_hits, pending, triggers, result>>

Next ==
    \/ SkipDisabled \/ ParseRaises \/ BeginCalls
    \/ CallRaises \/ CallAppends \/ CallSkipped
    \/ NoHitSets \/ Intersect \/ Emit \/ EndRule
    \/ Return \/ Tick

Spec == Init /\ [][Next]_vars

(***************************************************************************)
(* CONSEC_BELOW called on its own: a series of samples of Line L1, each    *)
(* followed by a sample of Line L2 that is below every threshold.          *)
(***************************************************************************)
MaxSeries == 4
MaxHours == 3
SampleValues == {60, 70, 90}
Thresholds == {70}

\* the hourly rows that carry the series, in arrival order
SeriesRows(series) ==
    [j \in 1..(2 * Len(series)) |->
        IF j % 2 = 1
        THEN Hourly(StrV(s_L1), StrV(s_S1), FloatV(series[(j + 1) \div 2]), IntV(0), 0)
        ELSE Hourly(StrV(s_L2), StrV(s_S2), FloatV(60), IntV(0), 0)]

\* the arguments of CONSEC_BELOW(threshold=..., hours=...) as parse_call
\* hands them over
ConsecArgs(threshold, hours) ==
    MkDict(<< <<s_threshold, FloatV(threshold)>>, <<s_hours, IntV(hours)>> >>)

ConsecInputs ==
    {[fn |-> s_CONSEC_BELOW, series |-> series, threshold |-> threshold, hours |-> hours] :
        series \in SeqsUpTo(SampleValues, MaxSeries),
        threshold \in Thresholds,
        hours \in 0..MaxHours}

InitConsec ==
    /\ call_in \in ConsecInputs
    /\ call_out = {}
    /\ pc = "calling"
    /\ rules = <<>>
    /\ data = SnapshotB
    /\ clock = StartClock
    /\ ticks = 0
    /\ idx = 1
    /\ parsed = <<>>
    /\ ci = 1
    /\ rule_hits = <<>>
    /\ pending = {}
    /\ triggers = <<>>
    /\ result = <<>>
    /\ lint_issues = <<>>
    /\ disk = NoDisk

\* lines 219-222: the CONSEC_BELOW branch runs on the rows of the series
ConsecBelowCall ==
    /\ pc = "calling"
    /\ call_out' = BranchConsecBelow(ConsecArgs(call_in.threshold, call_in.hours),
                                     SeriesRows(call_in.series)).hits
    /\ pc' = "returned"
    /\ UNCHANGED <<rules, data, clock, ticks, idx, parsed, ci, rule_hits, pending,
                   triggers, result, call_in, lint_issues, disk>>

NextConsec == ConsecBelowCall

SpecConsec == InitConsec /\ [][NextConsec]_vars

(***************************************************************************)
(* Properties of evaluate_rules.  An entry of triggers or result records,  *)
(* next to its Trigger, the rule (by index in the table) and the hit key   *)
(* it was emitted for.                                                     *)
(***************************************************************************)
\* the entries emitted so far and those returned
Emitted == {triggers[i] : i \in DOMAIN triggers} \cup {result[i] : i \in DOMAIN result}

\* the Enabled cell of a rule reads TRUE, in any letter case
FlagReadsTrue(rule) == Upper(PyStr(Get(rule, s_Enabled, StrV(<<>>)))) = s_TRUE

\* C1: no Trigger comes from a rule whose Enabled flag is not TRUE: every
\* Trigger emitted or returned was emitted for a rule of the table whose flag
\* reads TRUE, and carries the identifier of that enabled rule
C1_OnlyEnabledRulesEmit ==
    \A e \in Emitted :
        /\ e.rule \in DOMAIN rules
        /\ FlagReadsTrue(rules[e.rule])
        /\ e.trig.rule_id = Get(rules[e.rule], s_RuleID, StrV(<<>>))

\* a pass over SnapshotA has returned triggers although the table holds a
\* rule that is not enabled (the only such rule overlaps on Line L1)
C1_Witness ==
    /\ pc = "done"
    /\ result # <<>>
    /\ data = SnapshotA
    /\ \E r \in DOMAIN rules : ~FlagReadsTrue(rules[r])

\* the hit keys the current rule has emitted triggers for
EmittedKeys == {triggers[i].key : i \in {j \in DOMAIN triggers : triggers[j].rule = idx}}

\* C2: for a rule whose condition parses to N calls the keys that get a
\* trigger are the intersection of the N hit-sets of its calls: each of the
\* N calls has contributed a hit-set when the keys are iterated, the keys
\* iterated are that intersection, and only a rule of N = 0 calls is
\* passed over for want of hit-sets
C2_IntersectionOfAllCalls ==
    /\ pc = "emit" =>
        /\ Len(rule_hits) = Len(parsed)
        /\ EmittedKeys \cup pending =
              {h \in rule_hits[1] : \A i \in DOMAIN rule_hits : h \in rule_hits[i]}
    /\ (pc = "call" /\ ci > Len(parsed) /\ rule_hits = <<>>) => parsed = <<>>

\* C3: a rule that fails during evaluation is skipped and the pass goes on:
\* no exception ever leaves evaluate_rules
C3_PassNeverRaises == pc # "raised"

\* the severity rank: Urgent 4, Action 3, Watch 2, Info 1, any other 0
RankOf(severity) ==
    CASE severity = StrV(s_Urgent) -> 4
      [] severity = StrV(s_Action) -> 3
      [] severity = StrV(s_Watch) -> 2
      [] severity = StrV(s_Info) -> 1
      [] OTHER -> 0

\* C4: in the returned list the severity rank never rises from a trigger to
\* the next; at equal rank the impact never rises; at equal rank and impact
\* the timestamp never falls
C4_RankedOrder ==
    pc = "done" =>
        \A i \in 1..(Len(result) - 1) :
            LET a == result[i].trig
                b == result[i + 1].trig
            IN /\ RankOf(a.severity) >= RankOf(b.severity)
               /\ RankOf(a.severity) = RankOf(b.severity) => a.impact >= b.impact
               /\ (RankOf(a.severity) = RankOf(b.severity) /\ a.impact = b.impact)
                    => a.timestamp <= b.timestamp

\* the sort has moved triggers, one of them of a severity outside the four
\* ranked ones
C4_Witness ==
    /\ pc = "done"
    /\ result # triggers
    /\ \E i \in DOMAIN result : result[i].trig.severity = StrV(s_Critical)

\* two triggers tie on severity rank, impact and timestamp
Tie(a, b) ==
    /\ RankOf(a.severity) = RankOf(b.severity)
    /\ a.impact = b.impact
    /\ a.timestamp = b.timestamp

\* C5: the returned list holds exactly the emitted triggers, each as often
\* as it was emitted, and two triggers that tie on rank, impact and
\* timestamp keep the order in which they were emitted
C5_StablePermutation ==
    pc = "done" =>
        /\ Len(result) = Len(triggers)
        /\ \A i \in DOMAIN triggers :
              Cardinality({j \in DOMAIN result : result[j] = triggers[i]})
                = Cardinality({j \in DOMAIN triggers : triggers[j] = triggers[i]})
        /\ \A i, j \in DOMAIN triggers :
              (i < j /\ Tie(triggers[i].trig, triggers[j].trig)) =>
                 \E p, q \in DOMAIN result :
                    p < q /\ result[p] = triggers[i] /\ result[q] = triggers[j]

\* the sort has moved triggers and two of the returned triggers tie
C5_Witness ==
    /\ pc = "done"
    /\ result # triggers
    /\ \E p, q \in DOMAIN result : p < q /\ Tie(result[p].trig, result[q].trig)

\* the text names, in any letter case, one of the four disciplinary terms
MentionsDiscipline(text) ==
    \E term \in {s_disciplinary, s_write_up, s_punish, s_terminate} :
        Contains(Lower(text), term)

\* the recommendation text of a rule as evaluate_rules reads it
RecommendationOf(rule) == PyStr(Get(rule, s_ThenRecommendation, StrV(<<>>)))

\* C6: no Trigger carries a recommendation that names a disciplinary term in
\* any letter case: a rule text that names one is replaced in full by the
\* coaching fallback, any other rule text is passed through unchanged
C6_RecommendationsSanitized ==
    \A e \in Emitted :
        /\ ~MentionsDiscipline(e.trig.recommendation)
        /\ e.trig.recommendation =
              IF MentionsDiscipline(RecommendationOf(rules[e.rule]))
              THEN s_Fallback
              ELSE RecommendationOf(rules[e.rule])

\* a returned trigger of the rule that says PUNISH in capitals carries the
\* fallback, and another returned trigger carries its rule's text unchanged
C6_Witness ==
    /\ pc = "done"
    /\ \E i \in DOMAIN result :
          /\ RecommendationOf(rules[result[i].rule]) = r_Punish
          /\ result[i].trig.recommendation = s_Fallback
    /\ \E i \in DOMAIN result :
          /\ result[i].trig.recommendation = RecommendationOf(rules[result[i].rule])
          /\ result[i].trig.recommendation # s_Fallback

\* a component of a hit key is populated: not None and not the empty text
Populated(x) == x # None /\ x # StrV(<<>>)

\* C7: the impact of every emitted Trigger is the number of populated
\* components of the hit key it was emitted for
C7_ImpactCountsComponents ==
    \A e \in Emitted : e.trig.impact = Len(SelectSeq(e.key, Populated))

\* C8: all triggers returned by one pass carry the same timestamp
C8_OneTimestamp ==
    pc = "done" =>
        \A i, j \in DOMAIN result : result[i].trig.timestamp = result[j].trig.timestamp

\* the populated components of a key joined by commas, Unknown when none is
LabelOf(h) ==
    IF SelectSeq(h, Populated) = <<>> THEN s_Unknown
    ELSE Join([i \in DOMAIN SelectSeq(h, Populated) |-> PyStr(SelectSeq(h, Populated)[i])],
              <<",">>)

\* C9: every key that survives the conjunction of a rule gets exactly one
\* Trigger of that rule: while the keys are iterated each surviving key is
\* either still to come or has one Trigger, no Trigger of the rule is for
\* another key, no rule ever has two Triggers for one key, and the returned
\* list holds one Trigger for each emitted one; the label is the key's
\* populated components joined by commas, or Unknown; severity, scope and
\* identifier are the rule's
C9_OneTriggerPerKey ==
    /\ pc = "emit" =>
        /\ \A h \in Intersection(rule_hits) :
              Cardinality({i \in DOMAIN triggers :
                              triggers[i].rule = idx /\ triggers[i].key = h})
                = IF h \in pending THEN 0 ELSE 1
        /\ EmittedKeys \subseteq Intersection(rule_hits)
    /\ \A i, j \in DOMAIN triggers :
          (triggers[i].rule = triggers[j].rule /\ triggers[i].key = triggers[j].key) => i = j
    /\ pc = "done" =>
          \A i \in DOMAIN triggers :
             Cardinality({j \in DOMAIN result :
                             result[j].rule = triggers[i].rule
                             /\ result[j].key = triggers[i].key}) = 1
    /\ \A e \in Emitted :
          /\ e.trig.affected_entity = LabelOf(e.key)
          /\ e.trig.severity = Get(rules[e.rule], s_Severity, StrV(s_Info))
          /\ e.trig.scope = Get(rules[e.rule], s_Scope, StrV(s_Line))
          /\ e.trig.rule_id = Get(rules[e.rule], s_RuleID, StrV(<<>>))

\* one rule has returned a trigger labelled Unknown for a key without a
\* populated component and another for a key of two populated components
C9_Witness ==
    /\ pc = "done"
    /\ \E i, j \in DOMAIN result :
          /\ result[i].rule = result[j].rule
          /\ result[i].key = <<None, None>>
          /\ result[i].trig.affected_entity = s_Unknown
          /\ result[j].key = <<StrV(s_L2), StrV(s_S2)>>
          /\ result[j].trig.affected_entity = <<"L","2",",","S","2">>

\* among the most recent 2 * hours of the values there are hours
\* consecutive ones strictly below the threshold
RunBelow(values, threshold, hours) ==
    LET n == Len(values)
        first == IF n > 2 * hours THEN n - 2 * hours + 1 ELSE 1
    IN \E from \in first..(n - hours + 1) :
          \A k \in from..(from + hours - 1) : values[k] < threshold

\* the samples of Line L2 that accompany a series: as many, all at 0.6
CompanionSeries(series) == [i \in DOMAIN series |-> 60]

\* C10: CONSEC_BELOW reports the key of a group exactly when, among the
\* group's most recent 2 * hours samples in arrival order, hours consecutive
\* ones are strictly below the threshold; it reports no key of another
\* group; the series 0.9, 0.6, 0.6, 0.9 under threshold 0.7 hits for
\* hours = 2 and not for hours = 3
C10_ConsecBelowExact ==
    pc = "returned" =>
        /\ call_out \subseteq {<<StrV(s_L1)>>, <<StrV(s_L2)>>}
        /\ <<StrV(s_L1)>> \in call_out <=>
              (call_in.series # <<>>
               /\ RunBelow(call_in.series, call_in.threshold, call_in.hours))
        /\ <<StrV(s_L2)>> \in call_out <=>
              (call_in.series # <<>>
               /\ RunBelow(CompanionSeries(call_in.series), call_in.threshold, call_in.hours))
        /\ (call_in.series = <<90, 60, 60, 90>> /\ call_in.threshold = 70) =>
              /\ call_in.hours = 2 => <<StrV(s_L1)>> \in call_out
              /\ call_in.hours = 3 => <<StrV(s_L1)>> \notin call_out

\* the series 0.9, 0.6, 0.6, 0.9 under threshold 0.7 and hours = 2 has
\* returned Line L1 as a hit
C10_Witness ==
    /\ pc = "returned"
    /\ call_in.series = <<90, 60, 60, 90>>
    /\ call_in.threshold = 70
    /\ call_in.hours = 2
    /\ <<StrV(s_L1)>> \in call_out

(***************************************************************************)
(* The other predicates called on their own, each through its branch of    *)
(* evaluate_rules, at the instant StartClock (12:00 of day 0).             *)
(***************************************************************************)
MaxEvents == 3
MaxWindow == 2
MaxMin == 2

s_M2 == <<"M","2">>
s_Trip == <<"T","r","i","p">>
\* Machine={Machine}
s_MachineWhere == <<"M","a","c","h","i","n","e","=","{","M","a","c","h","i","n","e","}">>
\* 11 o clock
s_Garbled == <<"1","1"," ","o"," ","c","l","o","c","k">>
s_DayPrefix == <<"2","0","2","6","-","0","1","-","0","1"," ">>
s_OnTheHour == <<":","0","0">>

\* a downtime event: where it happened, why, and its time cell, which holds
\* a datetime, a text "2026-01-01 HH:00", nothing, or a text that is no time
Ev(line, machine, cause, form, hour) ==
    [line |-> line, machine |-> machine, cause |-> cause, form |-> form, hour |-> hour]

\* "2026-01-01 HH:00"
HourText(h) ==
    s_DayPrefix \o (IF h < 10 THEN <<"0">> ELSE <<>>) \o NatText(h) \o s_OnTheHour

\* the StartDT cell of an event
TimeCell(ev) ==
    CASE ev.form = "datetime" -> At(ev.hour)
      [] ev.form = "text" -> StrV(HourText(ev.hour))
      [] ev.form = "none" -> None
      [] ev.form = "garbled" -> StrV(s_Garbled)

\* the downtime row of an event
EventRow(ev) == Event(StrV(ev.line), StrV(ev.machine), StrV(ev.cause), TimeCell(ev))
EventRows(events) == [i \in DOMAIN events |-> EventRow(events[i])]

\* events three hours before the instant, one and two hours before it (on
\* the cutoff of a window of one and of two hours), three hours after it,
\* and without a usable time
EventKinds ==
    { Ev(s_L1, s_M1, s_Jam, "datetime", 9),
      Ev(s_L1, s_M1, s_Jam, "text", 11),
      Ev(s_L1, s_M2, s_Trip, "datetime", 10),
      Ev(s_L2, s_M1, s_Jam, "datetime", 15),
      Ev(s_L2, s_M2, s_Jam, "datetime", 11),
      Ev(s_L1, s_M1, s_Jam, "none", 0),
      Ev(s_L2, s_M1, s_Trip, "garbled", 11) }

\* ROLLING_COUNT(window_hours=..., where=..., min=...) on a list of events
RollingInputs ==
    {[fn |-> s_ROLLING_COUNT, events |-> events, where |-> where, window |-> window,
      min |-> min] :
        events \in SeqsUpTo(EventKinds, MaxEvents),
        where \in {s_LineWhere, s_MachineWhere},
        window \in 1..MaxWindow,
        min \in 1..MaxMin}

RollingArgs(in) ==
    MkDict(<< <<s_where, StrV(in.where)>>, <<s_window_hours, IntV(in.window)>>,
              <<s_min, IntV(in.min)>> >>)

\* lines 223-227: the ROLLING_COUNT branch runs on the rows of the events
RollingCountCall ==
    /\ pc = "calling"
    /\ call_in.fn = s_ROLLING_COUNT
    /\ call_out' = BranchRollingCount(RollingArgs(call_in), EventRows(call_in.events),
                                      clock).hits
    /\ pc' = "returned"
    /\ UNCHANGED <<rules, data, clock, ticks, idx, parsed, ci, rule_hits, pending,
                   triggers, result, call_in, lint_issues, disk>>


MaxSamples == 3
MaxStandards == 2

\* the (Line, SKU_Resolved) cells of an hourly sample
PairKinds ==
    { <<StrV(s_L1), StrV(s_S1)>>, <<StrV(s_L1), StrV(s_S2)>>, <<StrV(s_L2), StrV(s_S1)>>,
      <<None, None>> }
\* the (Line, SKU) cells of a standards row
StandardKinds ==
    { <<StrV(s_L1), StrV(s_S1)>>, <<StrV(s_L2), StrV(s_S1)>>, <<StrV(s_L2), StrV(s_S2)>> }

\* MISSING_STANDARD() on hourly samples and standards rows
MissingInputs ==
    {[fn |-> s_MISSING_STANDARD, samples |-> samples, standards |-> standards] :
        samples \in SeqsUpTo(PairKinds, MaxSamples),
        standards \in SeqsUpTo(StandardKinds, MaxStandards)}

SampleRows(samples) ==
    [i \in DOMAIN samples |-> Hourly(samples[i][1], samples[i][2], FloatV(90), IntV(0), 12)]
StandardRows(standards) ==
    [i \in DOMAIN standards |-> Standard(standards[i][1], standards[i][2])]

\* lines 209 and 228-230: the MISSING_STANDARD branch
MissingStandardCall ==
    /\ pc = "calling"
    /\ call_in.fn = s_MISSING_STANDARD
    /\ call_out' = BranchMissingStandard(SampleRows(call_in.samples),
                                         StandardsOf(StandardRows(call_in.standards))).hits
    /\ pc' = "returned"
    /\ UNCHANGED <<rules, data, clock, ticks, idx, parsed, ci, rule_hits, pending,
                   triggers, result, call_in, lint_issues, disk>>

MaxSlots == 3

\* a schedule slot of a line from one hour to another
Sl(line, from, to) == [line |-> line, from |-> from, to |-> to]

\* slots that overlap, that touch, that share a start, and one of no length
SlotKinds ==
    { Sl(s_L1, 6, 10), Sl(s_L1, 9, 13), Sl(s_L1, 10, 14), Sl(s_L1, 6, 7), Sl(s_L1, 6, 6),
      Sl(s_L2, 6, 10), Sl(s_L2, 8, 9) }

\* SCHEDULE_OVERLAP() on a list of slots
OverlapInputs ==
    {[fn |-> s_SCHEDULE_OVERLAP, slots |-> slots] : slots \in SeqsUpTo(SlotKinds, MaxSlots)}

SlotRows(slots) ==
    [i \in DOMAIN slots |-> Slot(StrV(slots[i].line), slots[i].from, slots[i].to, IntV(0))]

\* lines 231-234: the SCHEDULE_OVERLAP branch
ScheduleOverlapCall ==
    /\ pc = "calling"
    /\ call_in.fn = s_SCHEDULE_OVERLAP
    /\ call_out' = BranchScheduleOverlap(SlotRows(call_in.slots)).hits
    /\ pc' = "returned"
    /\ UNCHANGED <<rules, data, clock, ticks, idx, parsed, ci, rule_hits, pending,
                   triggers, result, call_in, lint_issues, disk>>


s_LineMachine == <<"L","i","n","e",",","M","a","c","h","i","n","e">>

\* REPEAT_CAUSE(groupby=..., min_repeats=..., window_hours=...) on events
RepeatInputs ==
    {[fn |-> s_REPEAT_CAUSE, events |-> events, groupby |-> groupby,
      min_repeats |-> min_repeats, window |-> MaxWindow] :
        events \in SeqsUpTo(EventKinds, MaxEvents),
        groupby \in {s_LineMachineCause, s_LineMachine, s_Line},
        min_repeats \in 1..MaxMin}

RepeatArgs(in) ==
    MkDict(<< <<s_groupby, StrV(in.groupby)>>, <<s_min_repeats, IntV(in.min_repeats)>>,
              <<s_window_hours, IntV(in.window)>> >>)

\* lines 235-238: the REPEAT_CAUSE branch runs on the rows of the events
RepeatCauseCall ==
    /\ pc = "calling"
    /\ call_in.fn = s_REPEAT_CAUSE
    /\ call_out' = BranchRepeatCause(RepeatArgs(call_in), EventRows(call_in.events),
                                     clock).hits
    /\ pc' = "returned"
    /\ UNCHANGED <<rules, data, clock, ticks, idx, parsed, ci, rule_hits, pending,
                   triggers, result, call_in, lint_issues, disk>>

MaxActuals == 4
MaxPlanned == 2
ActualKinds == {10, 30}
PlannedKinds == {0 - 50, 50, 100}
PctKinds == {10, 50}

\* FORECAST_SHORTFALL(pct=...) on the actual cases of Line L1, hour by
\* hour, and the planned cases of its slots; pct is in hundredths
ForecastInputs ==
    {[fn |-> s_FORECAST_SHORTFALL, actuals |-> actuals, planned |-> planned, pct |-> pct] :
        actuals \in SeqsUpTo(ActualKinds, MaxActuals),
        planned \in SeqsUpTo(PlannedKinds, MaxPlanned),
        pct \in PctKinds}

\* the hourly rows of Line L1, followed by one of Line L2, which has no slot
ActualRows(actuals) ==
    [i \in DOMAIN actuals |-> Hourly(StrV(s_L1), StrV(s_S1), FloatV(90), IntV(actuals[i]), 12)]
    \o << Hourly(StrV(s_L2), StrV(s_S1), FloatV(90), IntV(0), 12) >>
PlannedRows(planned) ==
    [i \in DOMAIN planned |-> Slot(StrV(s_L1), 6, 14, IntV(planned[i]))]

\* lines 239-252: the FORECAST_SHORTFALL branch
ForecastShortfallCall ==
    /\ pc = "calling"
    /\ call_in.fn = s_FORECAST_SHORTFALL
    /\ call_out' = BranchForecastShortfall(MkDict(<< <<s_pct, FloatV(call_in.pct)>> >>),
                                           ActualRows(call_in.actuals),
                                           PlannedRows(call_in.planned)).hits
    /\ pc' = "returned"
    /\ UNCHANGED <<rules, data, clock, ticks, idx, parsed, ci, rule_hits, pending,
                   triggers, result, call_in, lint_issues, disk>>

InitLibrary ==
    /\ call_in \in RollingInputs \cup MissingInputs \cup OverlapInputs
                     \cup RepeatInputs \cup ForecastInputs
    /\ call_out = {}
    /\ pc = "calling"
    /\ rules = <<>>
    /\ data = SnapshotB
    /\ clock = StartClock
    /\ ticks = 0
    /\ idx = 1
    /\ parsed = <<>>
    /\ ci = 1
    /\ rule_hits = <<>>
    /\ pending = {}
    /\ triggers = <<>>
    /\ result = <<>>
    /\ lint_issues = <<>>
    /\ disk = NoDisk

NextLibrary ==
    \/ RollingCountCall \/ MissingStandardCall \/ ScheduleOverlapCall
    \/ RepeatCauseCall \/ ForecastShortfallCall

SpecLibrary == InitLibrary /\ [][NextLibrary]_vars


(***************************************************************************)
(* Properties of the predicates.                                           *)
(***************************************************************************)
\* the time cell of the event holds a time
Timed(ev) == ev.form \in {"datetime", "text"}

\* the event is no older than window hours at the instant of the call
NotOlder(ev, window) == Timed(ev) /\ ev.hour * TicksPerHour >= clock - window * TicksPerHour

\* the event is no further than window hours from the instant of the call,
\* before it or after it
WithinWindow(ev, window) ==
    /\ NotOlder(ev, window)
    /\ ev.hour * TicksPerHour <= clock + window * TicksPerHour

Elements(seq) == {seq[i] : i \in DOMAIN seq}

\* C13: the hit-set of MISSING_STANDARD is the set of (Line, SKU_Resolved)
\* pairs of the hourly samples that are no (Line, SKU) pair of the standards
\* rows; with the standard (L1, S1) the sample (L1, S2) is a hit
C13_MissingStandardExact ==
    (pc = "returned" /\ call_in.fn = s_MISSING_STANDARD) =>
        /\ call_out = Elements(call_in.samples) \ Elements(call_in.standards)
        /\ (/\ call_in.standards = << <<StrV(s_L1), StrV(s_S1)>> >>
            /\ <<StrV(s_L1), StrV(s_S2)>> \in Elements(call_in.samples))
              => <<StrV(s_L1), StrV(s_S2)>> \in call_out

\* with the standard (L1, S1), of the samples (L1, S1) and (L1, S2) only
\* the second has become a hit
C13_Witness ==
    /\ pc = "returned"
    /\ call_in.fn = s_MISSING_STANDARD
    /\ call_in.standards = << <<StrV(s_L1), StrV(s_S1)>> >>
    /\ call_in.samples = << <<StrV(s_L1), StrV(s_S1)>>, <<StrV(s_L1), StrV(s_S2)>> >>
    /\ call_out = { <<StrV(s_L1), StrV(s_S2)>> }

\* the place of slot i among the slots of its line sorted by start, slots
\* of equal start in the order of the rows
PlaceOf(slots, i) ==
    Cardinality({k \in DOMAIN slots :
                    /\ slots[k].line = slots[i].line
                    /\ \/ slots[k].from < slots[i].from
                       \/ slots[k].from = slots[i].from /\ k < i})

\* some slot of the line starts strictly before the end of the slot that
\* comes immediately before it
StartsInsidePrevious(slots, line) ==
    \E i, j \in DOMAIN slots :
        /\ slots[i].line = line
        /\ slots[j].line = line
        /\ PlaceOf(slots, i) = PlaceOf(slots, j) + 1
        /\ slots[i].from < slots[j].to

\* C14: SCHEDULE_OVERLAP reports (line,) exactly when, the slots of the line
\* sorted by start, some slot starts strictly before the end of the slot
\* immediately before it; 06:00-10:00 then 09:00-13:00 is a hit, 06:00-10:00
\* then 10:00-14:00 is none; the slots of other lines do not count
C14_OverlapOfNeighbours ==
    (pc = "returned" /\ call_in.fn = s_SCHEDULE_OVERLAP) =>
        /\ call_out = {<<StrV(line)>> : line \in
                          {x \in {s_L1, s_L2} : StartsInsidePrevious(call_in.slots, x)}}
        /\ call_in.slots = <<Sl(s_L1, 6, 10), Sl(s_L1, 9, 13)>> => call_out = {<<StrV(s_L1)>>}
        /\ call_in.slots = <<Sl(s_L1, 6, 10), Sl(s_L1, 10, 14)>> => call_out = {}

\* the rows give a later slot of Line L1 first and a slot of Line L2 that
\* lies inside the hours of both; only Line L1 has become a hit
C14_Witness ==
    /\ pc = "returned"
    /\ call_in.fn = s_SCHEDULE_OVERLAP
    /\ call_in.slots = <<Sl(s_L1, 9, 13), Sl(s_L2, 8, 9), Sl(s_L1, 6, 10)>>
    /\ call_out = {<<StrV(s_L1)>>}


\* the columns named by a groupby text of the inputs, with Cause after them
ColumnsAndCause(groupby) ==
    IF groupby = s_Line THEN <<s_Line, s_Cause>> ELSE <<s_Line, s_Machine, s_Cause>>

\* the value an event has in a column
ColumnOf(ev, column) ==
    CASE column = s_Line -> StrV(ev.line)
      [] column = s_Machine -> StrV(ev.machine)
      [] column = s_Cause -> StrV(ev.cause)

\* the values an event has in a list of columns
ValuesOf(ev, columns) == [k \in DOMAIN columns |-> ColumnOf(ev, columns[k])]

RECURSIVE Total(_)
Total(values) == IF values = <<>> THEN 0 ELSE values[1] + Total(Tail(values))
LastThree(values) ==
    IF Len(values) <= 3 THEN values ELSE SubSeq(values, Len(values) - 2, Len(values))

\* planned P > 0 and (P - F) / P >= pct / 100 for the forecast
\* F = Total(actuals) + 2 * Total(LastThree(actuals)) / m, m the number of
\* values averaged, both sides multiplied by 100 * m * P
ShortOfPlan(actuals, planned, pct) ==
    LET P == Total(planned)
        m == Len(LastThree(actuals))
    IN /\ P > 0
       /\ 100 * (m * P - m * Total(actuals) - 2 * Total(LastThree(actuals))) >= pct * m * P

s_ThenEscalation ==
    <<"T","h","e","n","E","s","c","a","l","a","t","i","o","n">>
\* Thresholds
s_Thresholds ==
    <<"T","h","r","e","s","h","o","l","d","s">>
\* WindowHours
s_WindowHours ==
    <<"W","i","n","d","o","w","H","o","u","r","s">>
\* ConsecutiveHours
s_ConsecutiveHours ==
    <<"C","o","n","s","e","c","u","t","i","v","e","H","o","u","r","s">>
\* AppliesToLine
s_AppliesToLine ==
    <<"A","p","p","l","i","e","s","T","o","L","i","n","e">>
\* AppliesToMachine
s_AppliesToMachine ==
    <<"A","p","p","l","i","e","s","T","o","M","a","c","h","i","n","e">>
\* AppliesToSKU
s_AppliesToSKU ==
    <<"A","p","p","l","i","e","s","T","o","S","K","U">>
\* Version
s_Version ==
    <<"V","e","r","s","i","o","n">>
\* LastEditedBy
s_LastEditedBy ==
    <<"L","a","s","t","E","d","i","t","e","d","B","y">>
\* LastEditedDT
s_LastEditedDT ==
    <<"L","a","s","t","E","d","i","t","e","d","D","T">>
\* Operator
s_Operator ==
    <<"O","p","e","r","a","t","o","r">>
\* High
s_High ==
    <<"H","i","g","h">>
\* All
s_All ==
    <<"A","l","l">>
\* 1
s_One ==
    <<"1">>
\* planner
s_Planner ==
    <<"p","l","a","n","n","e","r">>

REQ_RULE_COLS ==
    << s_RuleID, s_Enabled, s_Severity, s_Scope, s_Description, s_IfLogic,
       s_ThenRecommendation, s_ThenEscalation, s_Thresholds, s_WindowHours,
       s_ConsecutiveHours, s_AppliesToLine, s_AppliesToMachine, s_AppliesToSKU,
       s_Version, s_LastEditedBy, s_LastEditedDT >>

Scopes == {StrV(s_Line), StrV(s_Machine), StrV(s_Operator), StrV(s_Shift)}

Issue(kind, row, fields) == [kind |-> kind, row |-> row, fields |-> fields]

\* ids = [r.get("RuleID") for r in rules]
RuleIds(table) == [i \in DOMAIN table |-> Get(table[i], s_RuleID, None)]

\* a variant that reports every row whose identifier occurred before
DuplicatePerRepeat(table) ==
    LET ids == RuleIds(table)
        repeated == {i \in DOMAIN ids : \E j \in 1..(i - 1) : ids[j] = ids[i]}
    IN [k \in 1..Cardinality(repeated) |-> Issue("duplicate", 0, <<>>)]

\* if len(set(ids)) != len(ids): one issue for the table
DuplicateIssues(table) ==
    LET ids == RuleIds(table)
    IN IF Cardinality({ids[i] : i \in DOMAIN ids}) # Len(ids)
       THEN << Issue("duplicate", 0, <<>>) >>
       ELSE << >>

\* c not in r or r[c] in (None, "")
IsMissing(r, c) == c \notin DOMAIN r \/ IsBlank(r[c])

\* a variant that reports only the columns a row does not have at all
MissingOnlyAbsent(r) == SelectSeq(REQ_RULE_COLS, LAMBDA c : c \notin DOMAIN r)

\* missing = [c for c in REQ_RULE_COLS if c not in r or r[c] in (None, "")]
MissingFields(r) == SelectSeq(REQ_RULE_COLS, LAMBDA c : IsMissing(r, c))

\* Invalid DSL expression: 
s_InvalidDSL ==
    <<"I","n","v","a","l","i","d"," ","D","S","L"," ","e","x","p","r","e","s","s","i","o","n",
      ":"," ">>
\* not enough values to unpack (expected 2, got 1)
s_Unpack ==
    <<"n","o","t"," ","e","n","o","u","g","h"," ","v","a","l","u","e","s"," ","t","o"," ","u",
      "n","p","a","c","k"," ","(","e","x","p","e","c","t","e","d"," ","2",","," ","g","o","t",
      " ","1",")">>

\* the first chunk of a condition whose parse_call raises, the chunks being
\* stripped and the empty ones passed over
RECURSIVE FirstRaising(_)
FirstRaising(chunks) ==
    IF Strip(Head(chunks)) # <<>> /\ ~parse_call(Head(chunks)).ok
    THEN Strip(Head(chunks)) ELSE FirstRaising(Tail(chunks))

\* str(exc) for the exception parse_call raises on the stripped chunk s:
\* the ValueError of line 61 when the text is no call, that of the
\* unpacking at line 66 when a part holds no "="
ExcText(s, n, r) ==
    IF n = 0 \/ n + 1 > Len(s) \/ s[n + 1] # "(" \/ r < n + 2
    THEN s_InvalidDSL \o s ELSE s_Unpack

\* the message of the exception parse_iflogic raises on a condition
ParserMessage(iflogic) ==
    LET s == FirstRaising(SplitAnd(iflogic, 1))
    IN ExcText(s, NameRun(s, 1), FindLast(s, ")", Len(s)))

\* a variant that checks the rows that are enabled and no others
RowIssuesOfEnabled(i, r) ==
    IF ~IsEnabled(r) THEN << >>
    ELSE (IF MissingFields(r) # <<>>
          THEN << Issue("missing", i, MissingFields(r)) >> ELSE << >>)
         \o (IF SEVERITY_ORDER(Get(r, s_Severity, None)) = 0
             THEN << Issue("severity", i, <<>>) >> ELSE << >>)
         \o (IF Get(r, s_Scope, None) \notin Scopes
             THEN << Issue("scope", i, <<>>) >> ELSE << >>)
         \o (IF ~parse_iflogic(PyStr(Get(r, s_IfLogic, StrV(<<>>)))).ok
             THEN << Issue("dsl", i, <<ParserMessage(PyStr(Get(r, s_IfLogic, StrV(<<>>))))>>) >>
             ELSE << >>)

\* the issues of one row, in the order the loop body appends them; the
\* parse issue carries the message of the exception
RowIssues(i, r) ==
    (IF MissingFields(r) # <<>> /\ IsEnabled(r)
     THEN << Issue("missing", i, MissingFields(r)) >> ELSE << >>)
    \o (IF SEVERITY_ORDER(Get(r, s_Severity, None)) = 0
        THEN << Issue("severity", i, <<>>) >> ELSE << >>)
    \o (IF Get(r, s_Scope, None) \notin Scopes
        THEN << Issue("scope", i, <<>>) >> ELSE << >>)
    \o (IF ~parse_iflogic(PyStr(Get(r, s_IfLogic, StrV(<<>>)))).ok
        THEN << Issue("dsl", i, <<ParserMessage(PyStr(Get(r, s_IfLogic, StrV(<<>>))))>>) >>
        ELSE << >>)

\* the loop over enumerate(rules, start=2), from row k of the table on
RECURSIVE RowsFrom(_, _)
RowsFrom(table, k) ==
    IF k > Len(table) THEN << >>
    ELSE RowIssues(k + 1, table[k]) \o RowsFrom(table, k + 1)

lint_rules(table) == DuplicateIssues(table) \o RowsFrom(table, 1)


(***************************************************************************)
(* lint_rules called on its own: the table is in rules, the returned list  *)
(* in lint_issues.                                                         *)
(***************************************************************************)
MaxLintRows == 4

s_lint_rules == <<"l","i","n","t","_","r","u","l","e","s">>

\* a row of the rule table with every required column filled in
FullRule(id, enabled, severity, scope, iflogic) ==
    MkDict(<< <<s_RuleID, id>>, <<s_Enabled, enabled>>, <<s_Severity, severity>>,
              <<s_Scope, scope>>, <<s_Description, StrV(d_Desc)>>, <<s_IfLogic, iflogic>>,
              <<s_ThenRecommendation, StrV(r_Review)>>, <<s_ThenEscalation, StrV(s_Planner)>>,
              <<s_Thresholds, StrV(s_One)>>, <<s_WindowHours, IntV(2)>>,
              <<s_ConsecutiveHours, IntV(2)>>, <<s_AppliesToLine, StrV(s_All)>>,
              <<s_AppliesToMachine, StrV(s_All)>>, <<s_AppliesToSKU, StrV(s_All)>>,
              <<s_Version, IntV(1)>>, <<s_LastEditedBy, StrV(s_Planner)>>,
              <<s_LastEditedDT, At(8)>> >>)

\* the row without the columns of a set, as a JSON rule that omits them
Without(r, columns) == [c \in DOMAIN r \ columns |-> r[c]]

\* the row with other values in the columns of d
Overwrite(r, d) == [c \in DOMAIN r |-> IF c \in DOMAIN d THEN d[c] ELSE r[c]]

\* the rows a linted table is drawn from: a faultless rule; a rule enabled
\* in lower case with an empty Description, an empty LastEditedDT cell and
\* no Version column, of the same identifier as the next; a disabled rule
\* without ThenEscalation; a rule of unknown severity; a disabled rule of
\* unknown scope and malformed condition; a rule enabled by a boolean cell
\* whose RuleID cell is empty; a rule calling an unknown function; a rule
\* with an empty Severity cell and no Scope column
LintCatalogue ==
    << FullRule(StrV(s_R1), StrV(s_TRUE), StrV(s_Action), StrV(s_Line), StrV(c_Default1)),
       Without(Overwrite(FullRule(StrV(s_R2), StrV(s_true), StrV(s_Urgent), StrV(s_Machine),
                                  StrV(c_Missing)),
                         MkDict(<< <<s_Description, StrV(<<>>)>>, <<s_LastEditedDT, None>> >>)),
               {s_Version}),
       Without(FullRule(StrV(s_R2), StrV(s_FALSE), StrV(s_Urgent), StrV(s_Line),
                        StrV(c_Overlap)),
               {s_ThenEscalation}),
       FullRule(StrV(s_R4), StrV(s_TRUE), StrV(s_High), StrV(s_Line), StrV(c_Overlap)),
       FullRule(StrV(s_R5), StrV(s_FALSE), StrV(s_Info), StrV(s_All), StrV(c_Malformed)),
       FullRule(None, BoolV(1), StrV(s_Watch), StrV(s_Shift), StrV(c_Forecast)),
       FullRule(StrV(s_R7), StrV(s_TRUE), StrV(s_Action), StrV(s_Operator), StrV(c_Unknown)),
       Without(FullRule(StrV(s_R8), StrV(s_TRUE), None, StrV(s_Line), StrV(c_Repeat)),
               {s_Scope}) >>

LintTables == SeqsUpTo({LintCatalogue[i] : i \in DOMAIN LintCatalogue}, MaxLintRows)

InitLint ==
    /\ rules \in LintTables
    /\ call_in = [fn |-> s_lint_rules]
    /\ call_out = {}
    /\ pc = "calling"
    /\ data = SnapshotB
    /\ clock = StartClock
    /\ ticks = 0
    /\ idx = 1
    /\ parsed = <<>>
    /\ ci = 1
    /\ rule_hits = <<>>
    /\ pending = {}
    /\ triggers = <<>>
    /\ result = <<>>
    /\ lint_issues = <<>>
    /\ disk = NoDisk

LintCall ==
    /\ pc = "calling"
    /\ call_in.fn = s_lint_rules
    /\ lint_issues' = lint_rules(rules)
    /\ pc' = "returned"
    /\ UNCHANGED <<rules, data, clock, ticks, idx, parsed, ci, rule_hits, pending,
                   triggers, result, call_in, call_out, disk>>

NextLint == LintCall

SpecLint == InitLint /\ [][NextLint]_vars

\* the issues of a kind in the returned list
IssuesOf(kind) == SelectSeq(lint_issues, LAMBDA issue : issue.kind = kind)

\* some RuleID value occurs in more than one row
SharedRuleId ==
    \E i, j \in DOMAIN rules :
        i # j /\ Get(rules[i], s_RuleID, None) = Get(rules[j], s_RuleID, None)

\* C19: lint_rules emits the duplicate-identifier issue exactly once when
\* some RuleID value occurs in more than one row, however many rows share
\* it, and does not emit it when all RuleID values are distinct
C19_DuplicateOnce ==
    (pc = "returned" /\ call_in.fn = s_lint_rules) =>
        Len(IssuesOf("duplicate")) = (IF SharedRuleId THEN 1 ELSE 0)

\* a table in which two identifiers occur twice each has been linted and
\* one duplicate issue is in the list
C19_Witness ==
    /\ pc = "returned"
    /\ call_in.fn = s_lint_rules
    /\ rules = << LintCatalogue[1], LintCatalogue[2], LintCatalogue[1], LintCatalogue[3] >>
    /\ Len(IssuesOf("duplicate")) = 1

\* the required columns that a row lacks or has as None or as empty text
BlankColumns(r) ==
    {c \in {REQ_RULE_COLS[k] : k \in DOMAIN REQ_RULE_COLS} :
        c \notin DOMAIN r \/ r[c] = None \/ r[c] = StrV(<<>>)}

\* C20: lint_rules emits a missing-required-fields issue for a row exactly
\* when the row is enabled and some required column is absent, None or
\* empty; there is one such issue per row, it names the row (numbered from
\* 2) and lists every missing field, and a row that is not enabled has none
C20_MissingFieldsOfEnabledRows ==
    (pc = "returned" /\ call_in.fn = s_lint_rules) =>
        LET missing == IssuesOf("missing")
        IN /\ \A i \in DOMAIN rules :
                LET named == {k \in DOMAIN missing : missing[k].row = i + 1}
                IN IF FlagReadsTrue(rules[i]) /\ BlankColumns(rules[i]) # {}
                   THEN /\ Cardinality(named) = 1
                        /\ \A k \in named :
                              {missing[k].fields[f] : f \in DOMAIN missing[k].fields}
                                  = BlankColumns(rules[i])
                   ELSE named = {}
           /\ \A k \in DOMAIN missing : missing[k].row - 1 \in DOMAIN rules

\* a table of the disabled rule lacking ThenEscalation followed by the
\* enabled rule lacking Description, Version and LastEditedDT has been
\* linted: the only issue of the kind names row 3 and lists the three fields
C20_Witness ==
    /\ pc = "returned"
    /\ call_in.fn = s_lint_rules
    /\ rules = << LintCatalogue[3], LintCatalogue[2] >>
    /\ IssuesOf("missing") =
          << Issue("missing", 3, <<s_Description, s_Version, s_LastEditedDT>>) >>


(***************************************************************************)
(* analyze: the rule table is linted, then evaluated.  pc is "lint" before *)
(* lint_rules has run; evaluate_rules follows as in Spec.                  *)
(***************************************************************************)
\* CONSEC_BELOW(metric="TargetAttain", threshold=0.70, hours=1, groupby="Line")
c_LastHour ==
    <<"C","O","N","S","E","C","_","B","E","L","O","W","(","m","e","t","r","i","c","=","\"","T",
      "a","r","g","e","t","A","t","t","a","i","n","\"",","," ","t","h","r","e","s","h","o","l",
      "d","=","0",".","7","0",","," ","h","o","u","r","s","=","1",","," ","g","r","o","u","p",
      "b","y","=","\"","L","i","n","e","\"",")">>
\* =B2/C2
s_Formula ==
    <<"=","B","2","/","C","2">>

\* CONSEC_BELOW(hours=1) AND REPEAT_CAUSE(min_repeats=1)
c_Mixed ==
    <<"C","O","N","S","E","C","_","B","E","L","O","W","(","h","o","u","r","s","=","1",")"," ",
      "A","N","D"," ","R","E","P","E","A","T","_","C","A","U","S","E","(","m","i","n","_","r",
      "e","p","e","a","t","s","=","1",")">>

\* rules with every required column: the first shipped rule asking for one
\* hour below target, the second shipped rule, a disabled rule, an empty
\* condition, a malformed condition, an unknown function name, an unusable
\* argument, a conjunction of a predicate keyed by line with one keyed by
\* line, machine and cause
AnalyzeCatalogue ==
    << FullRule(StrV(s_R1), StrV(s_TRUE), StrV(s_Action), StrV(s_Line), StrV(c_LastHour)),
       FullRule(StrV(s_R2), StrV(s_TRUE), StrV(s_Urgent), StrV(s_Line), StrV(c_Missing)),
       FullRule(StrV(s_R4), StrV(s_FALSE), StrV(s_Watch), StrV(s_Shift), StrV(c_Overlap)),
       FullRule(StrV(s_R6), StrV(s_TRUE), StrV(s_Info), StrV(s_Line), StrV(<<>>)),
       FullRule(StrV(s_R7), StrV(s_TRUE), StrV(s_Info), StrV(s_Line), StrV(c_Malformed)),
       FullRule(StrV(s_R8), StrV(s_TRUE), StrV(s_Action), StrV(s_Line), StrV(c_Unknown)),
       FullRule(StrV(s_R9), StrV(s_TRUE), StrV(s_Watch), StrV(s_Line), StrV(c_BadArg)),
       FullRule(StrV(s_R10), StrV(s_TRUE), StrV(s_Urgent), StrV(s_Line), StrV(c_Mixed)) >>

AnalyzeTables == SeqsUpTo({AnalyzeCatalogue[i] : i \in DOMAIN AnalyzeCatalogue}, MaxRules)

\* Line 1 has one hourly row, whose TargetAttain cell holds the text of a
\* formula; Line 2 meets its target
SnapshotC ==
    [hourly_rows |->
        << Hourly(StrV(s_L1), StrV(s_S1), StrV(s_Formula), IntV(40), 11),
           Hourly(StrV(s_L2), StrV(s_S1), FloatV(90), IntV(40), 11) >>,
     schedule_rows |-> << Slot(StrV(s_L1), 6, 10, IntV(200)), Slot(StrV(s_L1), 8, 12, IntV(200)) >>,
     downtime_rows |-> << >>,
     standards_rows |-> << Standard(StrV(s_L1), StrV(s_S1)) >>]

InitAnalyze ==
    /\ rules \in AnalyzeTables
    /\ data \in {SnapshotA, SnapshotC}
    /\ clock = StartClock
    /\ ticks = 0
    /\ pc = "lint"
    /\ idx = 1
    /\ parsed = <<>>
    /\ ci = 1
    /\ rule_hits = <<>>
    /\ pending = {}
    /\ triggers = <<>>
    /\ result = <<>>
    /\ call_in = NoCall
    /\ call_out = {}
    /\ lint_issues = <<>>
    /\ disk = NoDisk

\* line 349: lint_issues = lint_rules(rules)
LintRules ==
    /\ pc = "lint"
    /\ lint_issues' = lint_rules(rules)
    /\ pc' = "rule"
    /\ UNCHANGED <<rules, data, clock, ticks, idx, parsed, ci, rule_hits, pending,
                   triggers, result, call_in, call_out, disk>>

NextAnalyze == LintRules \/ Next

SpecAnalyze == InitAnalyze /\ [][NextAnalyze]_vars


(***************************************************************************)
(* Properties of the linter and the evaluation together.                   *)
(***************************************************************************)
Supported ==
    {s_CONSEC_BELOW, s_ROLLING_COUNT, s_MISSING_STANDARD, s_SCHEDULE_OVERLAP,
     s_REPEAT_CAUSE, s_FORECAST_SHORTFALL}

\* the rows the returned issues name: an issue for row i + 1 is about rules[i]
RowsWithIssue(kind) ==
    {lint_issues[k].row - 1 : k \in {j \in DOMAIN lint_issues : lint_issues[j].kind = kind}}

\* the condition of a rule parses and calls a function that is none of the six
CallsUnknown(rule) ==
    LET p == parse_iflogic(ConditionOf(rule))
    IN p.ok /\ \E k \in DOMAIN p.calls : p.calls[k].fn \notin Supported

\* C17: a condition that names a function other than the six supported
\* predicates is rejected when it is parsed: the linter has reported a
\* parse issue for its row, and evaluation never steps over such a call
C17_UnknownNamesRejected ==
    /\ pc # "lint" =>
          \A i \in DOMAIN rules : CallsUnknown(rules[i]) => i \in RowsWithIssue("dsl")
    /\ ~(pc = "call" /\ ci <= Len(parsed) /\ parsed[ci].fn \notin Supported)

\* to_float falls back to 0.0 for the value: it is no number and no text
\* that float() accepts
Defaulted(v) ==
    \/ v.t \in {"none", "dt"}
    \/ v.t = "str" /\ (Strip(v.s) = <<>> \/ Strip(v.s)[1] = "="
                          \/ ~FloatOfStripped(Strip(v.s)).ok)

\* the hourly rows whose metric was read as it stands
Measured(hourly_rows, metric) ==
    SelectSeq(hourly_rows, LAMBDA r : ~Defaulted(Get(r, metric, None)))

\* C18: a defaulted value never makes a rule fire without a lint issue: a
\* Trigger of a rule that has no lint issue and tests CONSEC_BELOW alone is
\* emitted for a key that is a hit as well when the samples whose metric
\* was defaulted to 0.0 are left out
C18_DefaultsNeverFire ==
    \A e \in Emitted :
        LET p == parse_iflogic(ConditionOf(rules[e.rule]))
        IN (/\ \A k \in DOMAIN lint_issues : lint_issues[k].row # e.rule + 1
            /\ Len(p.calls) = 1
            /\ p.calls[1].fn = s_CONSEC_BELOW)
           => e.key \in BranchConsecBelow(
                            p.calls[1].args,
                            Measured(data.hourly_rows,
                                     PyStr(Get(p.calls[1].args, s_metric,
                                               StrV(s_TargetAttain))))).hits


(***************************************************************************)
(* Properties of the linter, continued.                                    *)
(***************************************************************************)
Severities == {StrV(s_Info), StrV(s_Watch), StrV(s_Action), StrV(s_Urgent)}

\* the indices in the returned list of the issues of a kind that name row i + 1
IssuesAbout(kind, i) ==
    {k \in DOMAIN lint_issues : lint_issues[k].kind = kind /\ lint_issues[k].row = i + 1}

\* C21: lint_rules checks every row, enabled or not: a row has an
\* invalid-Severity issue iff its severity is none of Info, Watch, Action,
\* Urgent, an invalid-Scope issue iff its scope is none of Line, Machine,
\* Operator, Shift, and a parse issue iff its condition fails to parse, the
\* issue carrying the parser's message about a chunk of that condition that
\* parse_call rejects; each at most once, and lint_rules returns for
\* every table
C21_EveryRowChecked ==
    (pc = "returned" /\ call_in.fn = s_lint_rules) =>
        \A i \in DOMAIN rules :
            LET text == PyStr(Get(rules[i], s_IfLogic, StrV(<<>>)))
            IN /\ Cardinality(IssuesAbout("severity", i))
                    = (IF Get(rules[i], s_Severity, None) \in Severities THEN 0 ELSE 1)
               /\ Cardinality(IssuesAbout("scope", i))
                    = (IF Get(rules[i], s_Scope, None) \in Scopes THEN 0 ELSE 1)
               /\ Cardinality(IssuesAbout("dsl", i))
                    = (IF parse_iflogic(text).ok THEN 0 ELSE 1)
               /\ \A k \in IssuesAbout("dsl", i) :
                     \/ lint_issues[k].fields = <<s_Unpack>>
                     \/ \E c \in {Strip(SplitAnd(text, 1)[j]) : j \in DOMAIN SplitAnd(text, 1)} :
                           /\ ~parse_call(c).ok
                           /\ lint_issues[k].fields = <<s_InvalidDSL \o c>>

\* a table with the disabled rule of unknown scope and malformed condition
\* and with the rule of empty Severity has been linted: the disabled row has
\* its scope issue and its parse issue with the message of line 61
C21_Witness ==
    /\ pc = "returned"
    /\ call_in.fn = s_lint_rules
    /\ rules = << LintCatalogue[8], LintCatalogue[5] >>
    /\ lint_issues[Len(lint_issues)] = Issue("dsl", 3, <<s_InvalidDSL \o c_Malformed>>)
    /\ IssuesAbout("scope", 2) # {}
    /\ IssuesAbout("severity", 1) # {}


(***************************************************************************)
(* Properties of the predicates, continued.                                *)
(***************************************************************************)
\* the events of a list that have a time in an accepted form
TimedOnly(events) == SelectSeq(events, Timed)

\* C25: an event whose time is absent or in no accepted format has no
\* timestamp: ROLLING_COUNT and REPEAT_CAUSE return what they return for
\* the list without such events, whatever the window, and the call does
\* not raise
C25_UntimedEventsLeftOut ==
    /\ (pc = "returned" /\ call_in.fn = s_ROLLING_COUNT) =>
          /\ BranchRollingCount(RollingArgs(call_in), EventRows(call_in.events), clock).ok
          /\ call_out = BranchRollingCount(RollingArgs(call_in),
                                           EventRows(TimedOnly(call_in.events)), clock).hits
    /\ (pc = "returned" /\ call_in.fn = s_REPEAT_CAUSE) =>
          /\ BranchRepeatCause(RepeatArgs(call_in), EventRows(call_in.events), clock).ok
          /\ call_out = BranchRepeatCause(RepeatArgs(call_in),
                                          EventRows(TimedOnly(call_in.events)), clock).hits

\* ROLLING_COUNT by Line has run on an event without time, an event with a
\* garbled time and a recent event, with min = 2: Line L2 has two events
\* but one timestamp, and nothing is a hit
C25_Witness ==
    /\ pc = "returned"
    /\ call_in.fn = s_ROLLING_COUNT
    /\ call_in.where = s_LineWhere
    /\ call_in.min = 2
    /\ call_in.events = << Ev(s_L1, s_M1, s_Jam, "none", 0),
                           Ev(s_L2, s_M1, s_Trip, "garbled", 11),
                           Ev(s_L2, s_M2, s_Jam, "datetime", 11) >>
    /\ call_out = {}


\* two distinct slots of the line overlap: each starts strictly before the
\* other ends
SomeTwoOverlap(slots, line) ==
    \E i, j \in DOMAIN slots :
        /\ i # j
        /\ slots[i].line = line
        /\ slots[j].line = line
        /\ slots[i].from < slots[j].to
        /\ slots[j].from < slots[i].to

\* C28: for slots with parseable times SCHEDULE_OVERLAP reports (line,)
\* exactly when some two distinct slots of the line overlap, each starting
\* strictly before the other ends, in whatever order the rows are given,
\* slots of a shared start or of no length included
C28_OverlapOfAnyTwo ==
    (pc = "returned" /\ call_in.fn = s_SCHEDULE_OVERLAP) =>
        call_out = {<<StrV(line)>> : line \in
                       {x \in {s_L1, s_L2} : SomeTwoOverlap(call_in.slots, x)}}


(***************************************************************************)
(* Properties of the evaluation, continued.                                *)
(***************************************************************************)
\* two of the hit-sets hold keys of different length only
DifferentArity(hit_sets) ==
    \E i, j \in DOMAIN hit_sets :
        /\ hit_sets[i] # {} /\ hit_sets[j] # {}
        /\ \A a \in hit_sets[i] : \A b \in hit_sets[j] : Len(a) # Len(b)

\* C27: a rule that conjoins predicates whose hit keys differ in arity
\* emits no trigger, whatever the data: the keys are intersected as whole
\* tuples, so no key survives the hit-sets of such a rule, and the rule
\* joining CONSEC_BELOW by Line with REPEAT_CAUSE has no Trigger
C27_MixedArityNeverFires ==
    /\ (pc = "emit" /\ DifferentArity(rule_hits)) =>
          /\ pending = {}
          /\ \A e \in Emitted : e.rule # idx
    /\ \A e \in Emitted : ConditionOf(rules[e.rule]) # c_Mixed

\* the rule joining CONSEC_BELOW by Line with REPEAT_CAUSE has been
\* evaluated: Line L2 is in a key of both hit-sets, and no key is left
C27_Witness ==
    /\ pc = "emit"
    /\ ConditionOf(rules[idx]) = c_Mixed
    /\ Len(rule_hits) = 2
    /\ <<StrV(s_L2)>> \in rule_hits[1]
    /\ <<StrV(s_L2), StrV(s_M1), StrV(s_Jam)>> \in rule_hits[2]
    /\ pending = {}


(***************************************************************************)
(* parse_iflogic called on its own, on conditions written out from a list  *)
(* of calls: call_in holds the calls and the separator, call_out what the  *)
(* parser returned for the text.                                           *)
(***************************************************************************)
MaxCalls == 3

s_parse_iflogic == <<"p","a","r","s","e","_","i","f","l","o","g","i","c">>
\* MISSING_STANDARD(groupby="Line,SKU_Resolved")
t_Missing ==
    <<"M","I","S","S","I","N","G","_","S","T","A","N","D","A","R","D","(","g","r","o","u","p",
      "b","y","=","\"","L","i","n","e",",","S","K","U","_","R","e","s","o","l","v","e","d","\"",
      ")">>
\* CONSEC_BELOW(metric="TargetAttain", threshold=0.70, hours=2, groupby="Line")
t_Consec ==
    <<"C","O","N","S","E","C","_","B","E","L","O","W","(","m","e","t","r","i","c","=","\"","T",
      "a","r","g","e","t","A","t","t","a","i","n","\"",","," ","t","h","r","e","s","h","o","l",
      "d","=","0",".","7","0",","," ","h","o","u","r","s","=","2",","," ","g","r","o","u","p",
      "b","y","=","\"","L","i","n","e","\"",")">>
\* SCHEDULE_OVERLAP()
t_Overlap ==
    <<"S","C","H","E","D","U","L","E","_","O","V","E","R","L","A","P","(",")">>
\* ROLLING_COUNT(window_hours=2,where="Line={Line}",min=-1)
t_Rolling ==
    <<"R","O","L","L","I","N","G","_","C","O","U","N","T","(","w","i","n","d","o","w","_","h",
      "o","u","r","s","=","2",",","w","h","e","r","e","=","\"","L","i","n","e","=","{","L","i",
      "n","e","}","\"",",","m","i","n","=","-","1",")">>
\*  REPEAT_CAUSE(groupby="Line,Machine,Cause",  min_repeats=3, window_hours=12) 
t_Repeat ==
    <<" ","R","E","P","E","A","T","_","C","A","U","S","E","(","g","r","o","u","p","b","y","=",
      "\"","L","i","n","e",",","M","a","c","h","i","n","e",",","C","a","u","s","e","\"",","," ",
      " ","m","i","n","_","r","e","p","e","a","t","s","=","3",","," ","w","i","n","d","o","w",
      "_","h","o","u","r","s","=","1","2",")"," ">>
\* MY_CHECK(note=late, early)
t_Other ==
    <<"M","Y","_","C","H","E","C","K","(","n","o","t","e","=","l","a","t","e",","," ","e","a",
      "r","l","y",")">>
\* Line,SKU_Resolved
s_LineSku ==
    <<"L","i","n","e",",","S","K","U","_","R","e","s","o","l","v","e","d">>
\* note
s_note ==
    <<"n","o","t","e">>
\* late, early
s_LateEarly ==
    <<"l","a","t","e",","," ","e","a","r","l","y">>
\* MY_CHECK
s_MY_CHECK ==
    <<"M","Y","_","C","H","E","C","K">>

\* a call as written and as it is to be read: its text, its name and its
\* arguments
Written(text, fn, pairs) == [text |-> text, fn |-> fn, args |-> MkDict(pairs)]

\* the calls a condition is written from: quoted values that hold commas,
\* numbers with and without a fraction or a sign, an empty argument list,
\* commas with and without blanks after them, blanks around the call, a
\* name that is no predicate and a bare value that holds a comma
CallKinds ==
    { Written(t_Missing, s_MISSING_STANDARD, << <<s_groupby, StrV(s_LineSku)>> >>),
      Written(t_Consec, s_CONSEC_BELOW,
              << <<s_metric, StrV(s_TargetAttain)>>, <<s_threshold, FloatV(70)>>,
                 <<s_hours, IntV(2)>>, <<s_groupby, StrV(s_Line)>> >>),
      Written(t_Overlap, s_SCHEDULE_OVERLAP, << >>),
      Written(t_Rolling, s_ROLLING_COUNT,
              << <<s_window_hours, IntV(2)>>, <<s_where, StrV(s_LineWhere)>>,
                 <<s_min, IntV(0 - 1)>> >>),
      Written(t_Repeat, s_REPEAT_CAUSE,
              << <<s_groupby, StrV(s_LineMachineCause)>>, <<s_min_repeats, IntV(3)>>,
                 <<s_window_hours, IntV(12)>> >>),
      Written(t_Other, s_MY_CHECK, << <<s_note, StrV(s_LateEarly)>> >>) }

\* the separators between the calls of a condition
Separators == { <<" ","A","N","D"," ">>, <<" "," ","A","N","D"," "," "," ">> }

ParseInputs ==
    {[fn |-> s_parse_iflogic, calls |-> calls, sep |-> sep] :
        calls \in SeqsUpTo(CallKinds, MaxCalls) \ {<<>>}, sep \in Separators}

\* the condition text: the texts of the calls joined by the separator
RECURSIVE ConditionText(_, _)
ConditionText(calls, sep) ==
    IF Len(calls) = 1 THEN calls[1].text
    ELSE calls[1].text \o sep \o ConditionText(Tail(calls), sep)

InitParse ==
    /\ call_in \in ParseInputs
    /\ call_out = {}
    /\ pc = "calling"
    /\ rules = <<>>
    /\ data = SnapshotB
    /\ clock = StartClock
    /\ ticks = 0
    /\ idx = 1
    /\ parsed = <<>>
    /\ ci = 1
    /\ rule_hits = <<>>
    /\ pending = {}
    /\ triggers = <<>>
    /\ result = <<>>
    /\ lint_issues = <<>>
    /\ disk = NoDisk

ParseCall ==
    /\ pc = "calling"
    /\ call_in.fn = s_parse_iflogic
    /\ call_out' = parse_iflogic(ConditionText(call_in.calls, call_in.sep))
    /\ pc' = "returned"
    /\ UNCHANGED <<rules, data, clock, ticks, idx, parsed, ci, rule_hits, pending,
                   triggers, result, call_in, lint_issues, disk>>

NextParse == ParseCall

SpecParse == InitParse /\ [][NextParse]_vars

\* C26: parse_iflogic returns one call per AND-joined chunk, in the order
\* of the text, each with the name written in the text, and the argument
\* list is cut only at commas followed by a key= token: every argument has
\* the value written for it, a value that holds commas as one text
C26_CallsAsWritten ==
    (pc = "returned" /\ call_in.fn = s_parse_iflogic) =>
        /\ call_out.ok
        /\ Len(call_out.calls) = Len(call_in.calls)
        /\ \A k \in DOMAIN call_in.calls :
              /\ call_out.calls[k].fn = call_in.calls[k].fn
              /\ call_out.calls[k].args = call_in.calls[k].args

\* the condition of MISSING_STANDARD grouped by "Line,SKU_Resolved" joined
\* with CONSEC_BELOW has been parsed into these two calls, the groupby
\* value in one piece
C26_Witness ==
    /\ pc = "returned"
    /\ call_in.fn = s_parse_iflogic
    /\ Len(call_in.calls) = 2
    /\ call_in.calls[1].text = t_Missing
    /\ call_in.calls[2].text = t_Consec
    /\ Len(call_out.calls) = 2
    /\ call_out.calls[1].args[s_groupby] = StrV(s_LineSku)
    /\ call_out.calls[2].fn = s_CONSEC_BELOW


(***************************************************************************)
(* The workbook.  A workbook is its set of sheet names, its tables (each   *)
(* with its name, its sheet and its range: first and last row, columns A   *)
(* to the width-th) and its cells, a function from <<sheet, row, column>>  *)
(* to the value of the cell.                                               *)
(***************************************************************************)
\* Parameters
s_Parameters ==
    <<"P","a","r","a","m","e","t","e","r","s">>
\* Schedule_Entry
s_Schedule_Entry ==
    <<"S","c","h","e","d","u","l","e","_","E","n","t","r","y">>
\* Hourly_Log
s_Hourly_Log ==
    <<"H","o","u","r","l","y","_","L","o","g">>
\* Downtime_Log
s_Downtime_Log ==
    <<"D","o","w","n","t","i","m","e","_","L","o","g">>
\* Dash_Shift
s_Dash_Shift ==
    <<"D","a","s","h","_","S","h","i","f","t">>
\* Dash_Trends
s_Dash_Trends ==
    <<"D","a","s","h","_","T","r","e","n","d","s">>
\* Profiles
s_Profiles ==
    <<"P","r","o","f","i","l","e","s">>
\* Analysis_Report
s_Analysis_Report ==
    <<"A","n","a","l","y","s","i","s","_","R","e","p","o","r","t">>
\* Rules_Authoring
s_Rules_Authoring ==
    <<"R","u","l","e","s","_","A","u","t","h","o","r","i","n","g">>
\* tblLines
s_tblLines ==
    <<"t","b","l","L","i","n","e","s">>
\* TargetRateAttain
s_TargetRateAttain ==
    <<"T","a","r","g","e","t","R","a","t","e","A","t","t","a","i","n">>
\* ShiftStartTime
s_ShiftStartTime ==
    <<"S","h","i","f","t","S","t","a","r","t","T","i","m","e">>
\* ShiftEndTime
s_ShiftEndTime ==
    <<"S","h","i","f","t","E","n","d","T","i","m","e">>
\* Notes
s_Notes ==
    <<"N","o","t","e","s">>
\* tblStandards
s_tblStandards ==
    <<"t","b","l","S","t","a","n","d","a","r","d","s">>
\* ProductName
s_ProductName ==
    <<"P","r","o","d","u","c","t","N","a","m","e">>
\* Std_CPH
s_Std_CPH ==
    <<"S","t","d","_","C","P","H">>
\* tblMachines
s_tblMachines ==
    <<"t","b","l","M","a","c","h","i","n","e","s">>
\* tblOperators
s_tblOperators ==
    <<"t","b","l","O","p","e","r","a","t","o","r","s">>
\* EmpID
s_EmpID ==
    <<"E","m","p","I","D">>
\* OperatorName
s_OperatorName ==
    <<"O","p","e","r","a","t","o","r","N","a","m","e">>
\* Role
s_Role ==
    <<"R","o","l","e">>
\* TrainedLines
s_TrainedLines ==
    <<"T","r","a","i","n","e","d","L","i","n","e","s">>
\* tblSchedule
s_tblSchedule ==
    <<"t","b","l","S","c","h","e","d","u","l","e">>
\* RowID
s_RowID ==
    <<"R","o","w","I","D">>
\* Date
s_Date ==
    <<"D","a","t","e">>
\* Order
s_Order ==
    <<"O","r","d","e","r">>
\* tblHourly
s_tblHourly ==
    <<"t","b","l","H","o","u","r","l","y">>
\* StdCasesThisHour
s_StdCasesThisHour ==
    <<"S","t","d","C","a","s","e","s","T","h","i","s","H","o","u","r">>
\* RateAttain_100
s_RateAttain_100 ==
    <<"R","a","t","e","A","t","t","a","i","n","_","1","0","0">>
\* tblDowntime
s_tblDowntime ==
    <<"t","b","l","D","o","w","n","t","i","m","e">>
\* Minutes
s_Minutes ==
    <<"M","i","n","u","t","e","s">>
\* OperatorEmpID
s_OperatorEmpID ==
    <<"O","p","e","r","a","t","o","r","E","m","p","I","D">>
\* Category
s_Category ==
    <<"C","a","t","e","g","o","r","y">>
\* ActionTaken
s_ActionTaken ==
    <<"A","c","t","i","o","n","T","a","k","e","n">>
\* EscalatedYN
s_EscalatedYN ==
    <<"E","s","c","a","l","a","t","e","d","Y","N">>
\* ResolvedBy
s_ResolvedBy ==
    <<"R","e","s","o","l","v","e","d","B","y">>
\* _sheet_row
s__sheet_row ==
    <<"_","s","h","e","e","t","_","r","o","w">>
\* Line 
s_LinePrefix ==
    <<"L","i","n","e"," ">>
\* 2026-01-01
s_Day ==
    <<"2","0","2","6","-","0","1","-","0","1">>
\* SKU-00
s_SkuPrefix ==
    <<"S","K","U","-","0","0">>
\* Product 
s_ProductPrefix ==
    <<"P","r","o","d","u","c","t"," ">>
\* Operator 
s_OperatorPrefix ==
    <<"O","p","e","r","a","t","o","r"," ">>
\* Line 1,Line 2
s_TrainedOn ==
    <<"L","i","n","e"," ","1",",","L","i","n","e"," ","2">>
\* 06:00
s_0600 ==
    <<"0","6",":","0","0">>
\* 18:00
s_1800 ==
    <<"1","8",":","0","0">>
\* A
s_A ==
    <<"A">>
\* ORD-1001
s_ORD1 ==
    <<"O","R","D","-","1","0","0","1">>
\* ORD-1002
s_ORD2 ==
    <<"O","R","D","-","1","0","0","2">>
\* Mechanical
s_Mechanical ==
    <<"M","e","c","h","a","n","i","c","a","l">>
\* Cleared
s_Cleared ==
    <<"C","l","e","a","r","e","d">>
\* Y
s_Y ==
    <<"Y">>
\* Lead
s_Lead ==
    <<"L","e","a","d">>
\* E101
s_E101 ==
    <<"E","1","0","1">>
\* M1-1
s_M1_1 ==
    <<"M","1","-","1">>
\* 07:05
s_0705 ==
    <<"0","7",":","0","5">>
\* 07:20
s_0720 ==
    <<"0","7",":","2","0">>
\* 10:00
s_1000 ==
    <<"1","0",":","0","0">>
\* 14:00
s_1400 ==
    <<"1","4",":","0","0">>
\* R1_UNDERPERFORM_STOPS
s_R1_UNDERPERFORM_STOPS ==
    <<"R","1","_","U","N","D","E","R","P","E","R","F","O","R","M","_","S","T","O","P","S">>
\* R2_MISSING_STANDARD
s_R2_MISSING_STANDARD ==
    <<"R","2","_","M","I","S","S","I","N","G","_","S","T","A","N","D","A","R","D">>
\* *
s_Star ==
    <<"*">>
\* system
s_system ==
    <<"s","y","s","t","e","m">>
\* 2026-01-01T12:00
s_EditedAt ==
    <<"2","0","2","6","-","0","1","-","0","1","T","1","2",":","0","0">>
\* {}
s_NoThresholds ==
    <<"{","}">>
\* Escalate to process engineer and planner.
s_Escalate ==
    <<"E","s","c","a","l","a","t","e"," ","t","o"," ","p","r","o","c","e","s","s"," ","e","n",
      "g","i","n","e","e","r"," ","a","n","d"," ","p","l","a","n","n","e","r",".">>
\* workbook
s_workbook ==
    <<"w","o","r","k","b","o","o","k">>
\* json
s_json ==
    <<"j","s","o","n">>
\* default
s_default ==
    <<"d","e","f","a","u","l","t">>

s_tblRules == <<"t","b","l","R","u","l","e","s">>

SHEETS ==
    << s_Parameters, s_Schedule_Entry, s_Hourly_Log, s_Downtime_Log, s_Dash_Shift,
       s_Dash_Trends, s_Profiles, s_Analysis_Report, s_Rules_Authoring >>

TableDef(name, sheet, columns) == [name |-> name, sheet |-> sheet, columns |-> columns]

\* TABLE_DEFS, in the order of the dictionary
TABLE_DEFS ==
    << TableDef(s_tblLines, s_Parameters,
                <<s_Line, s_TargetRateAttain, s_ShiftStartTime, s_ShiftEndTime, s_Notes>>),
       TableDef(s_tblStandards, s_Parameters, <<s_Line, s_SKU, s_ProductName, s_Std_CPH>>),
       TableDef(s_tblMachines, s_Parameters, <<s_Line, s_Machine>>),
       TableDef(s_tblOperators, s_Parameters,
                <<s_EmpID, s_OperatorName, s_Role, s_TrainedLines>>),
       TableDef(s_tblSchedule, s_Schedule_Entry,
                <<s_RowID, s_Date, s_Shift, s_Line, s_StartDT, s_EndDT, s_Order, s_SKU,
                  s_PlannedCases, s_Notes>>),
       TableDef(s_tblHourly, s_Hourly_Log,
                <<s_RowID, s_Date, s_Shift, s_Line, s_HourEndingDT, s_ActualCases,
                  s_SKU_Resolved, s_Std_CPH, s_StdCasesThisHour, s_RateAttain_100,
                  s_TargetRateAttain, s_TargetAttain>>),
       TableDef(s_tblDowntime, s_Downtime_Log,
                <<s_RowID, s_Date, s_Shift, s_Line, s_StartDT, s_EndDT, s_Minutes, s_Machine,
                  s_OperatorEmpID, s_Category, s_Cause, s_ActionTaken, s_EscalatedYN,
                  s_ResolvedBy, s_Notes>>),
       TableDef(s_tblRules, s_Rules_Authoring, REQ_RULE_COLS) >>

\* TABLE_DEFS[name]
DefOf(name) == CHOOSE d \in {TABLE_DEFS[i] : i \in DOMAIN TABLE_DEFS} : d.name = name

NoCells == [k \in {} |-> None]
Book(sheets, tables, cells) ==
    [exists |-> TRUE, sheets |-> sheets, tables |-> tables, cells |-> cells]

\* Workbook() with its active sheet removed
NewBook == Book({}, {}, NoCells)

\* ws.cell(r, c).value
CellValue(book, sheet, r, c) ==
    IF <<sheet, r, c>> \in DOMAIN book.cells THEN book.cells[<<sheet, r, c>>] ELSE None

\* the cells with those of `written` put over them
Overlay(cells, written) ==
    [k \in DOMAIN cells \cup DOMAIN written |->
        IF k \in DOMAIN written THEN written[k] ELSE cells[k]]

\* ws.max_row: the last row that has a cell, 1 on a sheet without cells
max_row(book, sheet) ==
    IF \E k \in DOMAIN book.cells : k[1] = sheet
    THEN MaxOr0({k[2] : k \in {x \in DOMAIN book.cells : x[1] = sheet}})
    ELSE 1

\* name in ws.tables
HasTable(book, sheet, name) == \E t \in book.tables : t.sheet = sheet /\ t.name = name

\* ws.tables[name]
TableOf(book, sheet, name) == CHOOSE t \in book.tables : t.sheet = sheet /\ t.name = name

ensure_sheet(book, name) == [book EXCEPT !.sheets = @ \cup {name}]

clear_table(book, sheet, table_name) ==
    [book EXCEPT !.tables = {t \in @ : ~(t.sheet = sheet /\ t.name = table_name)}]

\* the cells write_table sets: the header in row start_row from column A
\* on, the rows below it; ws.cell(r, c, None) leaves the value of the cell
HeaderCells(sheet, columns, start_row) ==
    [k \in {<<sheet, start_row, i>> : i \in DOMAIN columns} |-> StrV(columns[k[3]])]
RowCells(sheet, rows, start_row, width) ==
    [k \in {x \in {<<sheet, start_row + r, c>> : r \in DOMAIN rows, c \in 1..width} :
               /\ x[3] <= Len(rows[x[2] - start_row])
               /\ rows[x[2] - start_row][x[3]] # None}
        |-> rows[k[2] - start_row][k[3]]]

\* max(start_row + 1, start_row + len(rows))
EndRow(start_row, n) == IF n > 1 THEN start_row + n ELSE start_row + 1

\* write_table: the cells are written, a table of this name on the sheet is
\* dropped and the table is added with the range A{start_row}:{end}
write_table(book, sheet, table_name, columns, rows, start_row) ==
    [exists |-> TRUE,
     sheets |-> book.sheets,
     tables |-> clear_table(book, sheet, table_name).tables
                  \cup {[name |-> table_name, sheet |-> sheet, first |-> start_row,
                         last |-> EndRow(start_row, Len(rows)), width |-> Len(columns)]},
     cells |-> Overlay(Overlay(book.cells, HeaderCells(sheet, columns, start_row)),
                       RowCells(sheet, rows, start_row, Len(columns)))]

\* the headers of a table as table_rows reads them from the first row of
\* its range; header cells hold texts
HeadersOf(book, t) == [c \in 1..t.width |-> PyStr(CellValue(book, t.sheet, t.first, c))]

\* the cells of sheet row r inside the range of the table
ValuesAt(book, t, r) == [c \in 1..t.width |-> CellValue(book, t.sheet, r, c)]

\* any(v not in (None, "") for v in values)
AnyValue(values) == \E c \in DOMAIN values : ~IsBlank(values[c])

\* the rows of the range below the header that hold a value
DataRows(book, t) == SelectSeq([k \in 1..(t.last - t.first) |-> t.first + k],
                               LAMBDA r : AnyValue(ValuesAt(book, t, r)))

\* table_rows of analyze_workbook: the rows that hold a value, each with
\* the number of its sheet row
table_rows(book, sheet, table_name) ==
    LET t == TableOf(book, sheet, table_name)
        at == DataRows(book, t)
    IN [k \in DOMAIN at |->
            MkDict([c \in 1..(t.width + 1) |->
                       IF c <= t.width
                       THEN <<HeadersOf(book, t)[c], CellValue(book, t.sheet, at[k], c)>>
                       ELSE <<s__sheet_row, IntV(at[k])>>])]


(***************************************************************************)
(* build_or_repair_workbook: the shipped rules, the seed rows, the         *)
(* dashboards.  The day of the run is 2026-01-01; the longer texts of the  *)
(* shipped rules are shortened; the digest row_id takes of its parts is    *)
(* stood for by the text it is taken of.                                   *)
(***************************************************************************)
\* Shift Flight Deck
x_Title ==
    <<"S","h","i","f","t"," ","F","l","i","g","h","t"," ","D","e","c","k">>
\* Data Quality Score
x_Score ==
    <<"D","a","t","a"," ","Q","u","a","l","i","t","y"," ","S","c","o","r","e">>
\* =IFERROR(AVERAGE(B6:B8),0)
x_ScoreF ==
    <<"=","I","F","E","R","R","O","R","(","A","V","E","R","A","G","E","(","B","6",":","B","8",
      ")",",","0",")">>
\* % Hourly with SKU
x_WithSku ==
    <<"%"," ","H","o","u","r","l","y"," ","w","i","t","h"," ","S","K","U">>
\* % Standards present
x_WithStd ==
    <<"%"," ","S","t","a","n","d","a","r","d","s"," ","p","r","e","s","e","n","t">>
\* % Downtime required fields
x_WithFields ==
    <<"%"," ","D","o","w","n","t","i","m","e"," ","r","e","q","u","i","r","e","d"," ","f","i",
      "e","l","d","s">>
\* =IFERROR(COUNTA(Hourly_Log!G:G)/MAX(COUNTA(Hourly_Log!A:A)-1,1),0)
x_WithSkuF ==
    <<"=","I","F","E","R","R","O","R","(","C","O","U","N","T","A","(","H","o","u","r","l","y",
      "_","L","o","g","!","G",":","G",")","/","M","A","X","(","C","O","U","N","T","A","(","H",
      "o","u","r","l","y","_","L","o","g","!","A",":","A",")","-","1",",","1",")",",","0",")">>
\* =0
x_Zero ==
    <<"=","0">>
\* =IFERROR(COUNTIFS(Downtime_Log!A:A,"<>",Downtime_Log!H:H,"<>",Downtime_Log!J:J,"<>")/MAX(COUNTA(Downtime_Log!A:A)-1,1),0)
x_WithFieldsF ==
    <<"=","I","F","E","R","R","O","R","(","C","O","U","N","T","I","F","S","(","D","o","w","n",
      "t","i","m","e","_","L","o","g","!","A",":","A",",","\"","<",">","\"",",","D","o","w","n",
      "t","i","m","e","_","L","o","g","!","H",":","H",",","\"","<",">","\"",",","D","o","w","n",
      "t","i","m","e","_","L","o","g","!","J",":","J",",","\"","<",">","\"",")","/","M","A","X",
      "(","C","O","U","N","T","A","(","D","o","w","n","t","i","m","e","_","L","o","g","!","A",
      ":","A",")","-","1",",","1",")",",","0",")">>
\* Changeover Prep Needed
x_Changeover ==
    <<"C","h","a","n","g","e","o","v","e","r"," ","P","r","e","p"," ","N","e","e","d","e","d">>
\* ="Check schedule in next 90 minutes"
x_ChangeoverF ==
    <<"=","\"","C","h","e","c","k"," ","s","c","h","e","d","u","l","e"," ","i","n"," ","n","e",
      "x","t"," ","9","0"," ","m","i","n","u","t","e","s","\"">>
\* Trend Dashboard
x_Trend ==
    <<"T","r","e","n","d"," ","D","a","s","h","b","o","a","r","d">>
\* Generated by automation scripts
x_Generated ==
    <<"G","e","n","e","r","a","t","e","d"," ","b","y"," ","a","u","t","o","m","a","t","i","o",
      "n"," ","s","c","r","i","p","t","s">>
\* Analysis Report
x_Report ==
    <<"A","n","a","l","y","s","i","s"," ","R","e","p","o","r","t">>
\* Run Analyze (Deep) to refresh
x_Refresh ==
    <<"R","u","n"," ","A","n","a","l","y","z","e"," ","(","D","e","e","p",")"," ","t","o"," ",
      "r","e","f","r","e","s","h">>
\* Rule Linter
x_Linter ==
    <<"R","u","l","e"," ","L","i","n","t","e","r">>
\* Issues are written by analyzer
x_Issues ==
    <<"I","s","s","u","e","s"," ","a","r","e"," ","w","r","i","t","t","e","n"," ","b","y"," ",
      "a","n","a","l","y","z","e","r">>

\* a rule of DEFAULT_RULES
DefaultRule(id, severity, iflogic, recommendation, thresholds, window, consecutive) ==
    MkDict(<< <<s_RuleID, StrV(id)>>, <<s_Enabled, StrV(s_TRUE)>>,
              <<s_Severity, StrV(severity)>>, <<s_Scope, StrV(s_Line)>>,
              <<s_Description, StrV(d_Desc)>>, <<s_IfLogic, StrV(iflogic)>>,
              <<s_ThenRecommendation, StrV(recommendation)>>,
              <<s_ThenEscalation, StrV(s_Escalate)>>, <<s_Thresholds, StrV(thresholds)>>,
              <<s_WindowHours, IntV(window)>>, <<s_ConsecutiveHours, IntV(consecutive)>>,
              <<s_AppliesToLine, StrV(s_Star)>>, <<s_AppliesToMachine, StrV(s_Star)>>,
              <<s_AppliesToSKU, StrV(s_Star)>>, <<s_Version, IntV(1)>>,
              <<s_LastEditedBy, StrV(s_system)>>, <<s_LastEditedDT, StrV(s_EditedAt)>> >>)

DEFAULT_RULES ==
    << DefaultRule(s_R1_UNDERPERFORM_STOPS, s_Action, c_Default1, r_Review, s_NoThresholds, 2, 2),
       DefaultRule(s_R2_MISSING_STANDARD, s_Urgent, c_Missing, r_AddStd, s_NoThresholds, 4, 1) >>

\* row_id(*parts): the parts joined by "|" stand for their digest
row_id(parts) == StrV(Join(parts, "|"))

\* f"Line {i}"
LineName(i) == s_LinePrefix \o NatText(i)

\* [r.get(c, "") for c in columns]
ListOf(r, columns) == [c \in DOMAIN columns |-> Get(r, columns[c], StrV(<<>>))]

\* the rows seed_defaults writes into the tables of Parameters
SeedLines ==
    [i \in 1..5 |-> <<StrV(LineName(i)), FloatV(85), StrV(s_0600), StrV(s_1800), StrV(<<>>)>>]
SeedStandards ==
    [k \in 1..10 |->
        <<StrV(LineName((k + 1) \div 2)), StrV(s_SkuPrefix \o NatText(2 - (k % 2))),
          StrV(s_ProductPrefix \o NatText(2 - (k % 2))), IntV(100 + (2 - (k % 2)) * 10)>>]
SeedMachines ==
    [k \in 1..10 |->
        <<StrV(LineName((k + 1) \div 2)),
          StrV(<<"M">> \o NatText((k + 1) \div 2) \o <<"-">> \o NatText(2 - (k % 2)))>>]
SeedOperators ==
    [i \in 1..10 |->
        <<StrV(<<"E">> \o NatText(100 + i)), StrV(s_OperatorPrefix \o NatText(i)),
          StrV(s_Operator), StrV(s_TrainedOn)>>]

\* the rows seed_defaults writes into the three logs
SeedSchedule ==
    << <<row_id(<<s_Day, s_A, LineName(1), s_SkuPrefix \o <<"1">>, s_0600>>), StrV(s_Day),
         StrV(s_A), StrV(LineName(1)), StrV(HourText(6)), StrV(HourText(10)), StrV(s_ORD1),
         StrV(s_SkuPrefix \o <<"1">>), IntV(400), StrV(<<>>)>>,
       <<row_id(<<s_Day, s_A, LineName(1), s_SkuPrefix \o <<"2">>, s_1000>>), StrV(s_Day),
         StrV(s_A), StrV(LineName(1)), StrV(HourText(10)), StrV(HourText(14)), StrV(s_ORD2),
         StrV(s_SkuPrefix \o <<"2">>), IntV(420), StrV(<<>>)>> >>
SeedHourly ==
    [k \in 1..3 |->
        <<row_id(<<s_Day, s_A, LineName(1), NatText(k + 6) \o s_OnTheHour>>), StrV(s_Day),
          StrV(s_A), StrV(LineName(1)), StrV(HourText(k + 6)), IntV(91 + k),
          StrV(s_SkuPrefix \o <<"1">>), IntV(110), IntV(110),
          StrV(<<"=","(","F">> \o NatText(k + 1) \o <<"/","I">> \o NatText(k + 1) \o <<")">>),
          FloatV(85),
          StrV(<<"=","(","J">> \o NatText(k + 1) \o <<"/","K">> \o NatText(k + 1) \o <<")">>)>>]
SeedDowntime ==
    << <<row_id(<<s_Day, LineName(1), s_M1_1, s_0705>>), StrV(s_Day), StrV(s_A),
         StrV(LineName(1)), StrV(s_DayPrefix \o s_0705), StrV(s_DayPrefix \o s_0720), IntV(15),
         StrV(s_M1_1), StrV(s_E101), StrV(s_Mechanical), StrV(s_Jam), StrV(s_Cleared),
         StrV(s_Y), StrV(s_Lead), StrV(<<>>)>> >>
SeedRules == [k \in DOMAIN DEFAULT_RULES |-> ListOf(DEFAULT_RULES[k], REQ_RULE_COLS)]

\* write_table of the table of TABLE_DEFS with this name, from row 1
WriteDef(book, name, rows) ==
    write_table(book, DefOf(name).sheet, name, DefOf(name).columns, rows, 1)

\* seed_defaults: the eight tables are written one after the other
seed_defaults(book) ==
    WriteDef(WriteDef(WriteDef(WriteDef(WriteDef(WriteDef(WriteDef(WriteDef(book,
        s_tblLines, SeedLines),
        s_tblStandards, SeedStandards),
        s_tblMachines, SeedMachines),
        s_tblOperators, SeedOperators),
        s_tblSchedule, SeedSchedule),
        s_tblHourly, SeedHourly),
        s_tblDowntime, SeedDowntime),
        s_tblRules, SeedRules)

\* setup_dashboards: the cells of the dashboards, of the report and of the
\* linter's corner T1:T2 of Rules_Authoring
DashboardCells ==
    MkDict(<< << <<s_Dash_Shift, 1, 1>>, StrV(x_Title)>>,
              << <<s_Dash_Shift, 3, 1>>, StrV(x_Score)>>,
              << <<s_Dash_Shift, 3, 2>>, StrV(x_ScoreF)>>,
              << <<s_Dash_Shift, 6, 1>>, StrV(x_WithSku)>>,
              << <<s_Dash_Shift, 7, 1>>, StrV(x_WithStd)>>,
              << <<s_Dash_Shift, 8, 1>>, StrV(x_WithFields)>>,
              << <<s_Dash_Shift, 6, 2>>, StrV(x_WithSkuF)>>,
              << <<s_Dash_Shift, 7, 2>>, StrV(x_Zero)>>,
              << <<s_Dash_Shift, 8, 2>>, StrV(x_WithFieldsF)>>,
              << <<s_Dash_Shift, 10, 1>>, StrV(x_Changeover)>>,
              << <<s_Dash_Shift, 10, 2>>, StrV(x_ChangeoverF)>>,
              << <<s_Dash_Trends, 1, 1>>, StrV(x_Trend)>>,
              << <<s_Dash_Trends, 2, 1>>, StrV(x_Generated)>>,
              << <<s_Analysis_Report, 1, 1>>, StrV(x_Report)>>,
              << <<s_Analysis_Report, 2, 1>>, StrV(x_Refresh)>>,
              << <<s_Rules_Authoring, 1, 20>>, StrV(x_Linter)>>,
              << <<s_Rules_Authoring, 2, 20>>, StrV(x_Issues)>> >>)

setup_dashboards(book) == [book EXCEPT !.cells = Overlay(@, DashboardCells)]

\* lines 259-262: every table of TABLE_DEFS from the k-th on that its
\* sheet does not have is written without rows
RECURSIVE EnsureTables(_, _)
EnsureTables(book, k) ==
    IF k > Len(TABLE_DEFS) THEN book
    ELSE EnsureTables(IF HasTable(book, TABLE_DEFS[k].sheet, TABLE_DEFS[k].name) THEN book
                      ELSE WriteDef(book, TABLE_DEFS[k].name, << >>),
                      k + 1)

\* lines 264-265 on the workbook that has its sheets and tables
SeedIfEmpty(book) == IF max_row(book, s_Parameters) <= 1 THEN seed_defaults(book) ELSE book

\* a variant of build_or_repair that takes an existing workbook to have
\* its tables and adds the sheets only
AddsSheetsOnly(file) ==
    LET wb1 == [(IF file.exists THEN file ELSE NewBook)
                   EXCEPT !.sheets = @ \cup {SHEETS[i] : i \in DOMAIN SHEETS}]
    IN setup_dashboards(SeedIfEmpty(IF file.exists THEN wb1 ELSE EnsureTables(wb1, 1)))

\* build_or_repair up to wb.save: the workbook written to the path, `file`
\* being what the path held (the validations are no cells, sheets or tables)
build_or_repair(file) ==
    LET wb0 == IF file.exists THEN file ELSE NewBook
        wb1 == [wb0 EXCEPT !.sheets = @ \cup {SHEETS[i] : i \in DOMAIN SHEETS}]
    IN setup_dashboards(SeedIfEmpty(EnsureTables(wb1, 1)))

\* export_default_rules_json: the document written next to the workbook
ExportedDefaults == [exists |-> TRUE, has_rules |-> TRUE, rules |-> DEFAULT_RULES]

\* a variant of select_rules for which a document that lists no rules is as
\* good as none
DefaultsWhenNoneListed(book, doc) ==
    LET rows == table_rows(book, s_Rules_Authoring, s_tblRules)
    IN IF rows # << >> THEN [rules |-> rows, source |-> s_workbook]
       ELSE IF doc.exists /\ doc.has_rules /\ doc.rules # << >>
            THEN [rules |-> doc.rules, source |-> s_json]
            ELSE [rules |-> DEFAULT_RULES, source |-> s_default]

\* select_rules on the workbook and on what the path of the rules document
\* holds
select_rules(book, doc) ==
    LET rows == table_rows(book, s_Rules_Authoring, s_tblRules)
    IN IF rows # << >> THEN [rules |-> rows, source |-> s_workbook]
       ELSE IF doc.exists
            THEN [rules |-> (IF doc.has_rules THEN doc.rules ELSE << >>), source |-> s_json]
            ELSE [rules |-> DEFAULT_RULES, source |-> s_default]


(***************************************************************************)
(* The choice of the rule source.  The workbook is the one build_or_repair *)
(* makes of an absent file, its rule table as the author left it: up to    *)
(* MaxAuthored rows, each one of the shipped rules or a row left blank.    *)
(* The rules document is absent, or holds no "rules" key, or a list.       *)
(***************************************************************************)
\* select_rules
s_select_rules ==
    <<"s","e","l","e","c","t","_","r","u","l","e","s">>
\* build_or_repair
s_build_or_repair ==
    <<"b","u","i","l","d","_","o","r","_","r","e","p","a","i","r">>
\* archive
s_archive ==
    <<"a","r","c","h","i","v","e">>

MaxAuthored == 2

FreshBook == build_or_repair(Absent)

BlankRow == ListOf(MkDict(<< >>), REQ_RULE_COLS)

AuthoredRows == SeqsUpTo({SeedRules[1], SeedRules[2], BlankRow}, MaxAuthored)

\* the fresh workbook with the rows below the header of tblRules replaced
WithRules(rows) ==
    WriteDef([FreshBook EXCEPT !.cells =
                 [k \in {x \in DOMAIN @ : ~(x[1] = s_Rules_Authoring /\ x[2] > 1 /\ x[3] <= 17)}
                     |-> @[k]]],
             s_tblRules, rows)

RulesDocuments ==
    { Absent,
      [exists |-> TRUE, has_rules |-> FALSE, rules |-> << >>],
      [exists |-> TRUE, has_rules |-> TRUE, rules |-> << >>],
      [exists |-> TRUE, has_rules |-> TRUE, rules |-> <<DEFAULT_RULES[2]>>],
      ExportedDefaults }

InitSelect ==
    /\ \E rows \in AuthoredRows, doc \in RulesDocuments :
          /\ call_in = [fn |-> s_select_rules, authored |-> rows]
          /\ disk = [workbook |-> WithRules(rows), rules_json |-> doc, history |-> Absent]
    /\ call_out = {}
    /\ pc = "calling"
    /\ rules = <<>>
    /\ data = SnapshotB
    /\ clock = StartClock
    /\ ticks = 0
    /\ idx = 1
    /\ parsed = <<>>
    /\ ci = 1
    /\ rule_hits = <<>>
    /\ pending = {}
    /\ triggers = <<>>
    /\ result = <<>>
    /\ lint_issues = <<>>

SelectRules ==
    /\ pc = "calling"
    /\ call_in.fn = s_select_rules
    /\ call_out' = select_rules(disk.workbook, disk.rules_json)
    /\ pc' = "returned"
    /\ UNCHANGED <<rules, data, clock, ticks, idx, parsed, ci, rule_hits, pending,
                   triggers, result, call_in, lint_issues, disk>>

NextSelect == SelectRules

SpecSelect == InitSelect /\ [][NextSelect]_vars

\* the authored rows that are not blank, in their order
Kept(rows) == SelectSeq(rows, LAMBDA r : r # BlankRow)

\* the rows read from the rule table are these lists, column by column
SameRows(read, lists) ==
    /\ Len(read) = Len(lists)
    /\ \A k \in DOMAIN lists : \A c \in DOMAIN REQ_RULE_COLS :
          read[k][REQ_RULE_COLS[c]] = lists[k][c]

\* C22: select_rules takes the rows of the authored rule table whenever one
\* of them is not blank; otherwise the rules the exported document lists
\* whenever the file exists, none if it lists none; otherwise the two
\* built-in rules
C22_SourcePriority ==
    (pc = "returned" /\ call_in.fn = s_select_rules) =>
        IF Kept(call_in.authored) # << >>
        THEN /\ call_out.source = s_workbook
             /\ SameRows(call_out.rules, Kept(call_in.authored))
        ELSE IF disk.rules_json.exists
             THEN /\ call_out.source = s_json
                  /\ call_out.rules = (IF disk.rules_json.has_rules
                                       THEN disk.rules_json.rules ELSE << >>)
             ELSE /\ call_out.source = s_default
                  /\ call_out.rules = DEFAULT_RULES
                  /\ Len(call_out.rules) = 2

\* the rule table holds one blank row, the document exists and lists no
\* rules: the source is the document and no rule is selected
C22_Witness ==
    /\ pc = "returned"
    /\ call_in.fn = s_select_rules
    /\ call_in.authored = <<BlankRow>>
    /\ disk.rules_json = [exists |-> TRUE, has_rules |-> TRUE, rules |-> << >>]
    /\ call_out = [rules |-> << >>, source |-> s_json]


(***************************************************************************)
(* build_or_repair on a path.  The path holds no file, or the workbook a   *)
(* first run made with up to MaxMissing of its sheets and tables deleted   *)
(* since; a deleted sheet takes its cells and its tables with it.          *)
(***************************************************************************)
MaxMissing == 2

SheetNames == {SHEETS[i] : i \in DOMAIN SHEETS}
TableNames == {TABLE_DEFS[i].name : i \in DOMAIN TABLE_DEFS}

\* the fresh workbook without these sheets and tables
Damaged(gone) ==
    Book(FreshBook.sheets \ gone,
         {t \in FreshBook.tables : t.sheet \notin gone /\ t.name \notin gone},
         [k \in {x \in DOMAIN FreshBook.cells : x[1] \notin gone} |-> FreshBook.cells[k]])

BuildInputs ==
    {Absent} \cup
    {Damaged(gone) : gone \in {g \in SUBSET (SheetNames \cup TableNames) :
                                  Cardinality(g) <= MaxMissing}}

InitBuild ==
    /\ \E file \in BuildInputs :
          /\ call_in = [fn |-> s_build_or_repair, file |-> file]
          /\ disk = [workbook |-> file, rules_json |-> Absent, history |-> Absent]
    /\ call_out = {}
    /\ pc = "calling"
    /\ rules = <<>>
    /\ data = SnapshotB
    /\ clock = StartClock
    /\ ticks = 0
    /\ idx = 1
    /\ parsed = <<>>
    /\ ci = 1
    /\ rule_hits = <<>>
    /\ pending = {}
    /\ triggers = <<>>
    /\ result = <<>>
    /\ lint_issues = <<>>

\* build_or_repair: the workbook is saved to the path and the shipped rules
\* are exported next to it
BuildOrRepair ==
    /\ pc = "calling"
    /\ call_in.fn = s_build_or_repair
    /\ disk' = [disk EXCEPT !.workbook = build_or_repair(disk.workbook),
                            !.rules_json = ExportedDefaults]
    /\ pc' = "returned"
    /\ UNCHANGED <<rules, data, clock, ticks, idx, parsed, ci, rule_hits, pending,
                   triggers, result, call_in, call_out, lint_issues>>

NextBuild == BuildOrRepair

SpecBuild == InitBuild /\ [][NextBuild]_vars

\* [ws.cell(1, c).value for c in range(1, 18)] of the test
FirstRow(book, sheet) == {CellValue(book, sheet, 1, c) : c \in 1..17}

\* C23: after build_or_repair the saved workbook has every sheet of SHEETS
\* and every table of TABLE_DEFS on the sheet named for it, whether the
\* path held no file or a workbook with sheets or tables missing; tblRules
\* is on Rules_Authoring and IfLogic is among the header cells
C23_SheetsAndTablesPresent ==
    (pc = "returned" /\ call_in.fn = s_build_or_repair) =>
        /\ disk.workbook.exists
        /\ \A i \in DOMAIN SHEETS : SHEETS[i] \in disk.workbook.sheets
        /\ \A i \in DOMAIN TABLE_DEFS :
              HasTable(disk.workbook, TABLE_DEFS[i].sheet, TABLE_DEFS[i].name)
        /\ HasTable(disk.workbook, s_Rules_Authoring, s_tblRules)
        /\ StrV(s_IfLogic) \in FirstRow(disk.workbook, s_Rules_Authoring)

\* the workbook had lost the sheet Rules_Authoring and the table
\* tblOperators, and has both after the run
C23_Witness ==
    /\ pc = "returned"
    /\ call_in.fn = s_build_or_repair
    /\ call_in.file.exists
    /\ s_Rules_Authoring \notin call_in.file.sheets
    /\ ~HasTable(call_in.file, s_Parameters, s_tblOperators)
    /\ HasTable(disk.workbook, s_Rules_Authoring, s_tblRules)
    /\ HasTable(disk.workbook, s_Parameters, s_tblOperators)

\* the cells of the range of a table
RangeOf(t) == {<<t.sheet, r, c>> : r \in t.first..t.last, c \in 1..t.width}

\* the header cells of the table hold the columns TABLE_DEFS gives it
OwnHeader(book, t) == HeadersOf(book, t) = DefOf(t.name).columns

\* C29: after build_or_repair has made a workbook of an absent file, every
\* table has its own column names in the header cells of its range, no two
\* tables of a sheet cover the same cells, and table_rows of tblStandards
\* yields the ten seeded rows with their Line and SKU
C29_TablesApartAndReadable ==
    (pc = "returned" /\ call_in.fn = s_build_or_repair /\ ~call_in.file.exists) =>
        /\ \A t \in disk.workbook.tables : OwnHeader(disk.workbook, t)
        /\ \A t, u \in disk.workbook.tables : t # u => RangeOf(t) \cap RangeOf(u) = {}
        /\ LET read == table_rows(disk.workbook, s_Parameters, s_tblStandards)
           IN /\ Len(read) = Len(SeedStandards)
              /\ \A k \in DOMAIN read :
                    /\ {s_Line, s_SKU} \subseteq DOMAIN read[k]
                    /\ read[k][s_Line] = SeedStandards[k][1]
                    /\ read[k][s_SKU] = SeedStandards[k][2]


(***************************************************************************)
(* archive_history: the three logs of the workbook are upserted into the   *)
(* tables of the history database, and with clear_current the rows of the  *)
(* logs are deleted from the workbook afterwards.  A table of the database *)
(* is the sequence of its stored rows; a dict read from the workbook is    *)
(* the sequence of its items, the headers of the logs being distinct.      *)
(***************************************************************************)
\* R-1
s_R_1 ==
    <<"R","-","1">>
\* B
s_B ==
    <<"B">>

\* the logs archive reads and the table of the database each goes to
ARCHIVED ==
    << [sheet |-> s_Schedule_Entry, table |-> s_tblSchedule, log |-> "schedule_log"],
       [sheet |-> s_Hourly_Log, table |-> s_tblHourly, log |-> "hourly_log"],
       [sheet |-> s_Downtime_Log, table |-> s_tblDowntime, log |-> "downtime_log"] >>

LogNames == {ARCHIVED[i].log : i \in DOMAIN ARCHIVED}

\* table_rows of archive_history: dict(zip(headers, vals)) of the rows that
\* hold a value
archive_table_rows(book, sheet, table_name) ==
    LET t == TableOf(book, sheet, table_name)
        at == DataRows(book, t)
    IN [k \in DOMAIN at |->
            [c \in 1..t.width |->
                <<HeadersOf(book, t)[c], CellValue(book, t.sheet, at[k], c)>>]]

\* row.get(key)
RECURSIVE ItemGet(_, _, _)
ItemGet(row, key, k) ==
    IF k = 0 THEN None
    ELSE IF row[k][1] = key THEN row[k][2] ELSE ItemGet(row, key, k - 1)

\* repr of a cell value inside str(row); the texts hold no quotes
Repr(v) == IF v.t = "str" THEN <<"'">> \o v.s \o <<"'">> ELSE PyStr(v)

\* str(row): the keys and the printed values, in the order of the items
Payload(row) == [c \in DOMAIN row |-> <<row[c][1], Repr(row[c][2])>>]

\* the value bound to the TEXT column RowID: None is NULL, a number is
\* stored as its text
SqlText(v) == IF v.t = "none" THEN None ELSE StrV(PyStr(v))

\* ensure_tables: CREATE TABLE IF NOT EXISTS on the connected database
ensure_tables(db) ==
    IF db.exists THEN db ELSE [exists |-> TRUE, logs |-> [l \in LogNames |-> << >>]]

\* INSERT OR REPLACE of one row: a stored row with the same RowID is
\* replaced; NULL conflicts with no row
InsertOrReplace(stored, key, payload) ==
    Append(IF key = None THEN stored ELSE SelectSeq(stored, LAMBDA s : s.RowID # key),
           [RowID |-> key, payload |-> payload])

\* upsert_rows from the k-th row on
RECURSIVE upsert_rows(_, _, _)
upsert_rows(stored, rows, k) ==
    IF k > Len(rows) THEN stored
    ELSE upsert_rows(InsertOrReplace(stored, SqlText(ItemGet(rows[k], s_RowID, Len(rows[k]))),
                                     Payload(rows[k])),
                     rows, k + 1)

\* lines 44-56 of archive: the database after the commit
Committed(db, book) ==
    [exists |-> TRUE,
     logs |-> [l \in LogNames |->
                  LET a == CHOOSE x \in Elements(ARCHIVED) : x.log = l
                  IN upsert_rows(ensure_tables(db).logs[l],
                                 archive_table_rows(book, a.sheet, a.table), 1)]]

\* ws.delete_rows(idx, amount): the cells of the rows are dropped and the
\* cells below them move up; the ranges of the tables stay
delete_rows(book, sheet, first, amount) ==
    LET kept == {k \in DOMAIN book.cells : k[1] # sheet \/ k[2] < first}
        below == {k \in DOMAIN book.cells : k[1] = sheet /\ k[2] >= first + amount}
    IN [book EXCEPT !.cells =
           [k \in kept \cup {<<x[1], x[2] - amount, x[3]>> : x \in below} |->
               IF k \in kept THEN book.cells[k]
               ELSE book.cells[<<k[1], k[2] + amount, k[3]>>]]]

\* lines 58-66 of archive: the rows 2..max_row of the three logs are deleted
RECURSIVE ClearLogs(_, _)
ClearLogs(book, k) ==
    IF k > Len(ARCHIVED) THEN book
    ELSE ClearLogs(delete_rows(book, ARCHIVED[k].sheet, 2,
                               TableOf(book, ARCHIVED[k].sheet, ARCHIVED[k].table).last - 1),
                   k + 1)


(***************************************************************************)
(* The archive runs.  The workbook is the one of a first build; between    *)
(* runs rows are entered into the logs, up to MaxEntered of them: each     *)
(* with the RowID R-1 or with none, on shift A or B.  archive runs up to   *)
(* MaxRuns times, with or without clear_current; pc is "clearing" between  *)
(* the commit and the deletion of the rows.  The database step may raise,  *)
(* before the database is touched or after its tables were created.       *)
(* `ticks` counts the runs, `idx` the entered rows, `call_out` is the      *)
(* workbook the last committed run read, and `result` records for each log *)
(* the payload of the last archived row of each RowID.                     *)
(***************************************************************************)
MaxRuns == 2
MaxEntered == 2

\* a row typed into a log: RowID, Date, Shift and Line, the other cells empty
EnteredRow(rowid, shift, width) ==
    [c \in 1..width |->
        CASE c = 1 -> rowid
          [] c = 2 -> StrV(s_Day)
          [] c = 3 -> StrV(shift)
          [] c = 4 -> StrV(LineName(1))
          [] OTHER -> None]

EntryKinds == {<<StrV(s_R_1), s_A>>, <<StrV(s_R_1), s_B>>, <<None, s_A>>}

\* the first row below the header of the table that holds no value, the row
\* below the table if there is none
FirstFree(book, t) ==
    IF \E r \in (t.first + 1)..t.last : ~AnyValue(ValuesAt(book, t, r))
    THEN CHOOSE r \in (t.first + 1)..t.last :
            /\ ~AnyValue(ValuesAt(book, t, r))
            /\ \A q \in (t.first + 1)..(r - 1) : AnyValue(ValuesAt(book, t, q))
    ELSE t.last + 1

\* the row typed into the first free row of the table, which grows with it
WithEntered(book, sheet, table_name, values) ==
    LET t == TableOf(book, sheet, table_name)
        r == FirstFree(book, t)
    IN [book EXCEPT
          !.cells = Overlay(@, RowCells(sheet, <<values>>, r - 1, t.width)),
          !.tables = (@ \ {t}) \cup {[t EXCEPT !.last = IF r > @ THEN r ELSE @]}]

\* the payload of the last row of each RowID among the rows, over `seen`
RECURSIVE LastPayloads(_, _, _)
LastPayloads(seen, rows, k) ==
    IF k > Len(rows) THEN seen
    ELSE LET key == SqlText(ItemGet(rows[k], s_RowID, Len(rows[k])))
         IN LastPayloads(IF key = None THEN seen
                         ELSE [x \in DOMAIN seen \cup {key} |->
                                  IF x = key THEN Payload(rows[k]) ELSE seen[x]],
                         rows, k + 1)

LogRows(book, l) ==
    LET a == CHOOSE x \in Elements(ARCHIVED) : x.log = l
    IN archive_table_rows(book, a.sheet, a.table)

InitArchive ==
    /\ disk = [workbook |-> FreshBook, rules_json |-> ExportedDefaults, history |-> Absent]
    /\ call_in = [fn |-> s_archive, clear_current |-> FALSE]
    /\ call_out = Absent
    /\ pc = "idle"
    /\ ticks = 0
    /\ idx = 1
    /\ result = [l \in LogNames |-> NoCells]
    /\ rules = <<>>
    /\ data = SnapshotB
    /\ clock = StartClock
    /\ parsed = <<>>
    /\ ci = 1
    /\ rule_hits = <<>>
    /\ pending = {}
    /\ triggers = <<>>
    /\ lint_issues = <<>>

\* a row is entered into one of the logs
Enter ==
    /\ pc = "idle"
    /\ idx <= MaxEntered
    /\ \E i \in DOMAIN ARCHIVED, kind \in EntryKinds :
          disk' = [disk EXCEPT !.workbook =
                      WithEntered(@, ARCHIVED[i].sheet, ARCHIVED[i].table,
                                  EnteredRow(kind[1], kind[2],
                                             Len(DefOf(ARCHIVED[i].table).columns)))]
    /\ idx' = idx + 1
    /\ UNCHANGED <<rules, data, clock, ticks, pc, parsed, ci, rule_hits, pending,
                   triggers, result, call_in, call_out, lint_issues>>

\* archive up to conn.close(): the rows of the three logs are upserted and
\* committed
ArchiveCommit ==
    /\ pc = "idle"
    /\ ticks < MaxRuns
    /\ \E clear_current \in BOOLEAN :
          /\ call_in' = [fn |-> s_archive, clear_current |-> clear_current]
          /\ pc' = IF clear_current THEN "clearing" ELSE "idle"
    /\ disk' = [disk EXCEPT !.history = Committed(@, disk.workbook)]
    /\ call_out' = disk.workbook
    /\ result' = [l \in LogNames |-> LastPayloads(result[l], LogRows(disk.workbook, l), 1)]
    /\ ticks' = ticks + 1
    /\ UNCHANGED <<rules, data, clock, idx, parsed, ci, rule_hits, pending,
                   triggers, lint_issues>>

\* archive from `if clear_current` on: the rows are deleted and the workbook
\* is saved
ClearCurrent ==
    /\ pc = "clearing"
    /\ disk' = [disk EXCEPT !.workbook = ClearLogs(@, 1)]
    /\ pc' = "idle"
    /\ UNCHANGED <<rules, data, clock, ticks, idx, parsed, ci, rule_hits, pending,
                   triggers, result, call_in, call_out, lint_issues>>

\* the database step raises: nothing was committed, and the tables of the
\* database exist if ensure_tables was reached
ArchiveFails ==
    /\ pc = "idle"
    /\ ticks < MaxRuns
    /\ \E reached \in BOOLEAN :
          disk' = [disk EXCEPT !.history = IF reached THEN ensure_tables(@) ELSE @]
    /\ ticks' = ticks + 1
    /\ UNCHANGED <<rules, data, clock, pc, idx, parsed, ci, rule_hits, pending,
                   triggers, result, call_in, call_out, lint_issues>>

NextArchive == Enter \/ ArchiveCommit \/ ClearCurrent \/ ArchiveFails

SpecArchive == InitArchive /\ [][NextArchive]_vars


\* the stored rows of a table of the database
Stored(db, l) == IF db.exists THEN db.logs[l] ELSE << >>

\* no two stored rows of a table have the same RowID
OnePerRowID ==
    \A l \in LogNames : \A i, j \in DOMAIN Stored(disk.history, l) :
        (i # j /\ Stored(disk.history, l)[i].RowID # None)
            => Stored(disk.history, l)[i].RowID # Stored(disk.history, l)[j].RowID

\* the stored row of a RowID holds the payload of the last archived row of
\* that RowID
MostRecentPayload ==
    \A l \in LogNames : \A i \in DOMAIN Stored(disk.history, l) :
        LET s == Stored(disk.history, l)[i]
        IN s.RowID # None => (s.RowID \in DOMAIN result[l] /\ s.payload = result[l][s.RowID])

\* a run that commits the workbook the last committed run read leaves the
\* database as it is
RerunChangesNothing ==
    (ArchiveCommit /\ call_out = disk.workbook) => disk'.history = disk.history

\* C24: after any sequence of archive runs every table of the database
\* holds at most one row per RowID, with the payload of the most recently
\* archived row of that RowID, and archiving an unchanged workbook a second
\* time leaves the database unchanged
C24_OneRowPerRowID ==
    /\ [](OnePerRowID /\ MostRecentPayload)
    /\ [][RerunChangesNothing]_vars

\* the rows of a log that a step removes from the workbook
Removed(l) == Elements(LogRows(disk.workbook, l)) \ Elements(LogRows(disk'.workbook, l))

\* a step removes rows of the logs only between the commit of the upsert
\* of this workbook and the end of the run, every removed row has its
\* payload in the database afterwards, and a run whose database step raises
\* leaves the workbook as it is
NothingLost ==
    /\ \A l \in LogNames : \A r \in Removed(l) :
          /\ pc = "clearing"
          /\ call_out = disk.workbook
          /\ \E i \in DOMAIN Stored(disk'.history, l) :
                Stored(disk'.history, l)[i].payload = Payload(r)
    /\ ArchiveFails => disk'.workbook = disk.workbook

\* C30: archive with clear_current loses no data: rows are deleted only
\* after the upsert of the three logs is committed, every row that held a
\* value and is removed has its payload in the database afterwards, also
\* when rows share a RowID or have none, and a failure of the database step
\* leaves the workbook unchanged
C30_NothingLost == [][NothingLost]_vars

=============================================================================
